---- MODULE Spec2Model ----
(* A model of deptective's dependency search: the SBOM value type, the       *)
(* reference-counted Container/step snapshots, the recursive generator       *)
(* SBOMGeneratorStep.find_feasible_sboms and the drivers SBOMGenerator._main *)
(* and _multi_step (src/deptective/dependencies.py, containers.py).          *)
(*                                                                           *)
(* The Python generators are modelled as an explicit stack of frames and a   *)
(* control record `ctl` saying which frame acts next and what it is handed:  *)
(* a call, a yielded value, a resumption, StopIteration, or an exception.    *)
EXTENDS Integers, Sequences, FiniteSets, TLC

\* ---------------------------------------------------------------- bounds
NumPackages == 2
NumFiles == 2
MaxCommands == 3

Packages == 1..NumPackages      \* package names; the integer order is the string order
Files == 1..NumFiles            \* absolute paths the commands may access
DotDot == NumFiles + 1          \* a path holding "..", which resolves to file 1
Unprovided == NumPackages + 1   \* a dependency that no package of the index provides

VARIABLES
    unit,        \* a component exercised on its own: files_exist, the cache, ...
    exe,         \* one Execution, its engine container and its owning Container
    env,         \* the world the search runs in, fixed at Init
    steps,       \* every SBOMGeneratorStep constructed so far, by id
    best,        \* root._best_sbom: id of the best-partial step (0 before the root exists)
    feasible,    \* SBOMGenerator.feasible (SBOMs are equal iff their sets are)
    infeasible,  \* SBOMGenerator.infeasible
    stack,       \* the live generator frames, outermost first
    ctl,         \* what happens next, and to which frame
    results,     \* the SBOMs handed to the caller of main/multi_step, in order
    outcome,     \* "idle", "running", "ok", or the type of the error that reached the caller
    error,       \* the exception that reached the caller
    events       \* log of step events, in program order

vars == <<env, steps, best, feasible, infeasible, stack, ctl, results, outcome, error, events>>

\* ---------------------------------------------------------------- helpers
Range(s) == {s[i] : i \in 1..Len(s)}

Min(S) == CHOOSE x \in S : \A y \in S : x <= y
Max(S) == CHOOSE x \in S : \A y \in S : y <= x

RECURSIVE SetToSeq(_)
SetToSeq(S) == IF S = {} THEN <<>>
               ELSE LET m == CHOOSE x \in S : \A y \in S : x <= y
                    IN <<m>> \o SetToSeq(S \ {m})

Perms(S) == {p \in [1..Cardinality(S) -> S] : \A i, j \in 1..Cardinality(S) : p[i] = p[j] => i = j}

\* ---------------------------------------------------------------- the world
\* env.cache[f]   : the packages the contents index lists for file f
\* env.phantom    : files that exist in no snapshot, whatever is installed
\* env.present    : files of the base image, which exist in every snapshot
\* env.needs[c]   : command c exits 0 iff these packages are all installed
\* env.watch      : the packages whose presence shows in a command's output
\* env.seeds      : the command/argument/PATH hints pushed at the root
\* env.dotdot     : whether the commands also access the ".." path
\* env.quiet      : whether the commands access no path at all
\* env.order      : the order in which this process iterates over a set of paths
\* env.bad        : the package whose install fails (0: none); env.badkind how
\* env.room       : the install fails only on top of at least this many packages
NoOut == <<0>>                  \* command_output is None
NoExc == [type |-> "none", out |-> NoOut, partial |-> <<>>]

FileExists(f, I) ==
    LET g == IF f = DotDot THEN 1 ELSE f
    IN \/ g \in env.present
       \/ g \notin env.phantom /\ env.cache[g] \cap I # {}

Accessed == IF env.quiet THEN {}
            ELSE IF env.dotdot THEN Files \cup {DotDot} ELSE Files

ExitCode(c, I) == IF env.needs[c] \subseteq I THEN 0
                  ELSE IF env.needs[c] \cap I # {} THEN 2 ELSE 1

OutputOf(c, I) == SetToSeq(I \cap env.watch)

InstallResult(pre, base) ==
    IF pre = {} \/ env.bad \notin pre \/ Cardinality(base) < env.room
    THEN "ok" ELSE env.badkind

SBOMGenerationErrors == {"NonZeroExit", "IrrelevantPackageInstall",
                         "PackageResolutionError", "PreinstallError"}

\* ---------------------------------------------------------------- SBOM
\* An SBOM is its tuple of dependencies; equality, hashing and the superset
\* test go through the frozenset of that tuple.
SBOM(deps) == deps
DependencySet(sbom) == Range(sbom)
SBOMAddDroppingLeft(a, b) == b
SBOMAdd(a, b) == a \o b
IsSuperset(a, b) == DependencySet(b) \subseteq DependencySet(a)
SBOMEqByTuple(a, b) == a = b
SBOMEq(a, b) == DependencySet(a) = DependencySet(b)

\* ---------------------------------------------------------------- steps
\* parent = 0 stands for the base image. commits / removes count the snapshots
\* the step committed and removed; taken / released count the entries that
\* children's starts took on it and that children's stops gave back.
NewStep(st, cmd, pre, parent) ==
    [parent   |-> parent,
     cmd      |-> cmd,
     pre      |-> pre,
     level    |-> IF parent = 0 THEN 0 ELSE st[parent].level + 1,
     tried    |-> IF parent = 0 THEN {} ELSE st[parent].tried \cup st[parent].pre,
     retval   |-> -1,
     out      |-> NoOut,
     missing  |-> <<>>,
     entries  |-> 0,
     image    |-> FALSE,
     commits  |-> 0,
     removes  |-> 0,
     taken    |-> 0,
     released |-> 0]

\* SBOMGeneratorStep.__init__ also moves the best-partial pointer.
BestAfterInit(st, b, new) ==
    IF new.parent = 0 THEN Len(st) + 1
    ELSE IF new.level > st[b].level THEN Len(st) + 1 ELSE b

RECURSIVE StepSbom(_, _)
StepSbom(st, s) ==
    IF s = 0 THEN SBOM(<<>>)
    ELSE SBOMAdd(StepSbom(st, st[s].parent), SBOM(SetToSeq(st[s].pre)))

\* The packages in step s's snapshot: its image is its parent's image with its
\* own preinstall set installed on top.
RECURSIVE Installed(_, _)
Installed(st, s) ==
    IF s = 0 THEN {} ELSE Installed(st, st[s].parent) \cup st[s].pre

\* Container.__enter__ / start. Returns the new table and the error raised.
RECURSIVE Enter(_, _)
Enter(st, s) ==
    LET st1 == [st EXCEPT ![s].entries = @ + 1] IN
    IF st[s].entries # 0 THEN [st |-> st1, err |-> "ok"]
    ELSE LET p == st[s].parent
             r == IF p # 0 THEN Enter([st1 EXCEPT ![p].taken = @ + 1], p)
                  ELSE [st |-> st1, err |-> "ok"]
             i == InstallResult(st[s].pre, Installed(st, p))
         IN  IF r.err # "ok"
             THEN [st |-> [r.st EXCEPT ![s].entries = @ - 1], err |-> r.err]
             ELSE IF i # "ok"
             THEN [st |-> [r.st EXCEPT ![s].entries = @ - 1], err |-> i]
             ELSE [st |-> [r.st EXCEPT ![s].image = TRUE, ![s].commits = @ + 1],
                   err |-> "ok"]

\* An exit whose stop forgets the snapshot's removal.
RECURSIVE ExitKeepingImage(_, _)
ExitKeepingImage(st, s) ==
    LET st1 == [st EXCEPT ![s].entries = @ - 1] IN
    IF st1[s].entries # 0 THEN st1
    ELSE IF st[s].parent # 0 THEN ExitKeepingImage(st1, st[s].parent) ELSE st1

\* An exit whose stop forgets to leave the parent.
ExitLeavingParent(st, s) ==
    LET st1 == [st EXCEPT ![s].entries = @ - 1] IN
    IF st1[s].entries # 0 THEN st1
    ELSE [st1 EXCEPT ![s].image = FALSE, ![s].removes = @ + 1]

\* Container.__exit__ / stop.
RECURSIVE Exit(_, _)
Exit(st, s) ==
    LET st1 == [st EXCEPT ![s].entries = @ - 1] IN
    IF st1[s].entries # 0 THEN st1
    ELSE LET p == st[s].parent
             st2 == [st1 EXCEPT ![s].image = FALSE, ![s].removes = @ + 1]
         IN  IF p # 0 THEN Exit([st2 EXCEPT ![p].released = @ + 1], p) ELSE st2

\* ---------------------------------------------------------------- ranking
\* packages_to_try: name -> (count, idx); <<0, -1>> stands for "not a key".
RECURSIVE PackagesToTry(_, _, _, _)
PackagesToTry(missing, i, excluded, acc) ==
    IF i > Len(missing) THEN acc
    ELSE PackagesToTry(missing, i + 1, excluded,
            [p \in Packages |->
                IF p \in env.cache[missing[i]] /\ p \notin excluded
                THEN <<acc[p][1] + 1, i - 1>>
                ELSE acc[p]])

\* The same sort with ties on (count, idx) broken by ascending name.
SortsBeforeNameAscending(t, x, y) ==
    \/ t[x][1] > t[y][1]
    \/ t[x][1] = t[y][1] /\ t[x][2] > t[y][2]
    \/ t[x][1] = t[y][1] /\ t[x][2] = t[y][2] /\ x < y

\* sorted(((count, idx, name) ...), reverse=True): does x come before y?
SortsBefore(t, x, y) ==
    \/ t[x][1] > t[y][1]
    \/ t[x][1] = t[y][1] /\ t[x][2] > t[y][2]
    \/ t[x][1] = t[y][1] /\ t[x][2] = t[y][2] /\ x > y

RECURSIVE SortedBy(_, _)
SortedBy(t, S) ==
    IF S = {} THEN <<>>
    ELSE LET m == CHOOSE x \in S : \A y \in S \ {x} : SortsBefore(t, x, y)
         IN <<m>> \o SortedBy(t, S \ {m})

\* A ranking that forgets what the chain has installed already.
RankedCandidatesUnfiltered(missing, excluded) ==
    LET t == PackagesToTry(missing, 1, {}, [p \in Packages |-> <<0, -1>>])
    IN SortedBy(t, {p \in Packages : t[p][1] > 0})

RankedCandidates(missing, excluded) ==
    LET t == PackagesToTry(missing, 1, excluded, [p \in Packages |-> <<0, -1>>])
    IN SortedBy(t, {p \in Packages : t[p][1] > 0})

\* ---------------------------------------------------------------- frames
\* kind: "MULTI" multi_step, "MS" _multi_step, "MAIN" _main,
\*       "FFS" find_feasible_sboms.
Frame(kind, pc, step, k) ==
    [kind |-> kind, pc |-> pc, step |-> step, k |-> k,
     cands |-> <<>>, ci |-> 0, child |-> 0, yielded |-> FALSE,
     sstep |-> 0, nstep |-> 0, fstep |-> 0]

Ctl(op, at) == [op |-> op, at |-> at, sbom |-> <<>>, step |-> 0, exc |-> NoExc]
CtlYield(at, sbom, step) == [Ctl("yield", at) EXCEPT !.sbom = sbom, !.step = step]
CtlRaise(at, exc) == [Ctl("exc", at) EXCEPT !.exc = exc]

Exc(type, out, partial) == [type |-> type, out |-> out, partial |-> partial]
Event(kind, step, pkgs) == [kind |-> kind, step |-> step, pkgs |-> pkgs]

Top == Len(stack)
Pop(stk) == SubSeq(stk, 1, Len(stk) - 1)

\* The frame that iterates over the generator of frame j (0: the caller).
ConsumerOf(stk, j) ==
    IF stk[j].kind = "MS" /\ stk[j].k > 1
    THEN Max({i \in 1..(j - 1) : stk[i].kind = "MS"})
    ELSE j - 1

\* The _multi_step generator that frame j (an "MS" frame in its inner loop) iterates over.
InnerOf(stk, j) == CHOOSE i \in (j + 1)..Len(stk) :
    /\ stk[i].kind = "MS"
    /\ \A m \in (j + 1)..(i - 1) : stk[m].kind # "MS"

\* _multi_step(commands[k..], prev_step=s) up to the first run of s:
\* `with prev_step`, _main's `with existing_step`, then find_feasible_sboms.
StageFrames(k, s) == <<Frame("MS", "iter", s, k), Frame("MAIN", "iter", s, k),
                       Frame("FFS", "run", s, k)>>

\* generator.close() on suspended frames, innermost first: every `with` that
\* is open at a yield is left.
RECURSIVE CloseFrames(_, _)
CloseFrames(st, frames) ==
    IF frames = <<>> THEN st
    ELSE LET f == frames[Len(frames)]
             st1 == IF f.kind = "FFS" /\ f.pc = "child" THEN Exit(st, f.child)
                    ELSE IF f.kind = "MAIN" THEN Exit(st, f.step)
                    ELSE st
         IN CloseFrames(st1, Pop(frames))

\* ---------------------------------------------------------------- Init
\* The worlds: every cache, every set of needed packages, files that appear
\* once a provider is installed or never, outputs that show the installed
\* packages or nothing; and on top of that one feature at a time: root seeds
\* (absolute-path arguments, possibly repeated, possibly naming a file of the
\* base image), a ".." path, a command that
\* accesses nothing, a package whose install fails (for lack of disk space or
\* not; always, or only on top of an image that already holds a package).
CacheVals == SUBSET Packages
FirstNeeds == (SUBSET Packages) \cup {{Unprovided}}
LaterNeeds == {S \in SUBSET Packages : Cardinality(S) <= 1}
Features == {"plain", "seed", "seeds", "present", "dotdot", "quiet", "fail", "nospace", "full"}

Init ==
    /\ \E mode \in {"single", "multi"}, cache \in [Files -> CacheVals],
          phantom \in {{}, Files}, first \in FirstNeeds, watch \in {{}, Packages} :
       \E ncmds \in (IF mode = "single" THEN {1} ELSE 1..MaxCommands),
          feature \in (IF mode = "single" THEN Features ELSE {"plain"}) :
       \E later \in [2..ncmds -> LaterNeeds],
          order \in Perms(IF feature = "dotdot" THEN Files \cup {DotDot} ELSE Files) :
          env = [mode    |-> mode,
                 ncmds   |-> ncmds,
                 cache   |-> cache,
                 phantom |-> phantom,
                 present |-> IF feature = "present" THEN {1} ELSE {},
                 needs   |-> [c \in 1..ncmds |-> IF c = 1 THEN first ELSE later[c]],
                 watch   |-> watch,
                 seeds   |-> IF feature \in {"seed", "present"} THEN <<1>>
                             ELSE IF feature = "seeds" THEN <<1, NumFiles, NumFiles, 1>>
                             ELSE <<>>,
                 dotdot  |-> feature = "dotdot",
                 quiet   |-> feature = "quiet",
                 order   |-> order,
                 bad     |-> IF feature \in {"fail", "nospace", "full"} THEN 1 ELSE 0,
                 badkind |-> IF feature \in {"nospace", "full"} THEN "nospace" ELSE "fail",
                 room    |-> IF feature = "full" THEN 1 ELSE 0]
    /\ unit = [kind |-> "unused"]
    /\ exe = [phase |-> "unused"]
    /\ steps = <<>>
    /\ best = 0
    /\ feasible = {}
    /\ infeasible = {}
    /\ stack = <<>>
    /\ ctl = Ctl("idle", 0)
    /\ results = <<>>
    /\ outcome = "idle"
    /\ error = NoExc
    /\ events = <<>>

\* ---------------------------------------------------------------- actions
\* SBOMGenerator.main / multi_step, up to the root step's first run:
\* the root is constructed and opened (its setup pushes the seeds).
Begin ==
    /\ ctl.op = "idle"
    /\ LET root == [NewStep(steps, 1, {}, 0) EXCEPT !.missing = env.seeds]
           st0 == <<root>>
           st1 == Enter(st0, 1).st
       IN IF env.mode = "single"
          THEN /\ steps' = st1
               /\ stack' = <<Frame("MAIN", "iter", 1, 1), Frame("FFS", "run", 1, 1)>>
          ELSE /\ steps' = Enter(Enter(st1, 1).st, 1).st
               /\ stack' = <<Frame("MULTI", "iter", 1, 1)>> \o StageFrames(1, 1)
    /\ best' = 1
    /\ ctl' = Ctl("call", 0)
    /\ outcome' = "running"
    /\ events' = events \o <<Event("create", 1, {}), Event("open", 1, {})>>
    /\ UNCHANGED <<unit, exe, env, feasible, infeasible, results, error>>

\* Iterating over a set of paths visits them in the process's hash order.
InSetOrder(S) == SelectSeq(env.order, LAMBDA f : f \in S)

\* Lines 484-492: a path holding ".." is appended in its resolved form.
Resolve(f) == IF f = DotDot THEN 1 ELSE f
Resolved(paths) == [i \in 1..Len(paths) |-> Resolve(paths[i])]

\* The command_output setter: a step at the best step's level with a longer
\* output becomes the best-partial step.
BestAfterOutput(st, b, s) ==
    IF /\ st[s].level = st[b].level
       /\ st[b].out # NoOut
       /\ Len(st[s].out) > Len(st[b].out)
    THEN s ELSE b

\* The probe logged ahead of the run it depends on.
RunEventsProbeFirst(s, I) ==
    <<Event("probe", s, I), Event("run", s, I), Event("parse", s, I)>>

\* The order of lines 454-483: the command runs, the strace log is parsed,
\* the accessed paths are probed in the step's snapshot.
RunEvents(s, I) ==
    <<Event("run", s, I), Event("parse", s, I), Event("probe", s, I)>>

\* find_feasible_sboms, lines 447-492: run the command under strace, read
\* the log, probe the accessed paths, append the new missing ones.
RunStep ==
    /\ ctl.op = "call"
    /\ stack # <<>>
    /\ stack[Top].kind = "FFS" /\ stack[Top].pc = "run"
    /\ LET s == stack[Top].step
           I == Installed(steps, s)
           c == steps[s].cmd
           toCheck == Accessed \ Range(steps[s].missing)
           newMissing == {f \in toCheck : ~FileExists(f, I)}
           st1 == [steps EXCEPT
                     ![s].retval = ExitCode(c, I),
                     ![s].out = OutputOf(c, I),
                     ![s].missing = @ \o Resolved(InSetOrder(newMissing))]
       IN /\ steps' = st1
          /\ best' = BestAfterOutput(st1, best, s)
          /\ events' = events \o RunEvents(s, I)
    /\ stack' = [stack EXCEPT ![Top].pc = "decide"]
    /\ UNCHANGED <<unit, exe, env, feasible, infeasible, ctl, results, outcome, error>>

RegisterNothing(st, s) == infeasible

\* _register_infeasible: the step's SBOM, unless empty, joins the infeasible set.
RegisterInfeasible(st, s) ==
    IF StepSbom(st, s) # <<>> THEN infeasible \cup {DependencySet(StepSbom(st, s))}
    ELSE infeasible

InfeasibleEvents(st, s) ==
    IF StepSbom(st, s) # <<>>
    THEN <<Event("infeasible", s, DependencySet(StepSbom(st, s)))>> ELSE <<>>

ResolutionErrorWithoutOutput(st, b, out) ==
    Exc("PackageResolutionError", NoOut, StepSbom(st, b))

ResolutionError(st, b, out) == Exc("PackageResolutionError", out, StepSbom(st, b))

AcceptsNothing(me) == FALSE

\* Line 493: the run succeeded.
Accepts(me) == me.retval = 0

NeverSameAsParent(st, s) == FALSE

\* Lines 501-505: the parent is a step with the same output and exit code.
SameAsParent(st, s) ==
    /\ st[s].parent # 0
    /\ st[st[s].parent].out = st[s].out
    /\ st[st[s].parent].retval = st[s].retval

Raised(type, st, s) == Event(type, s, DependencySet(StepSbom(st, s)))

\* find_feasible_sboms, lines 493-533: accept, the no-progress guards, ranking.
Decide ==
    /\ ctl.op = "call"
    /\ stack # <<>>
    /\ stack[Top].kind = "FFS" /\ stack[Top].pc = "decide"
    /\ LET s == stack[Top].step
           me == steps[s]
           cands == RankedCandidates(me.missing, me.tried \cup me.pre)
       IN IF Accepts(me)
          THEN /\ stack' = [stack EXCEPT ![Top].pc = "yielded0"]
               /\ ctl' = CtlYield(Top - 1, SBOM(<<>>), s)
               /\ UNCHANGED <<infeasible, events>>
          ELSE IF me.missing = <<>>
          THEN /\ stack' = Pop(stack)
               /\ ctl' = CtlRaise(Top - 1, Exc("NonZeroExit", NoOut, <<>>))
               /\ events' = Append(events, Raised("NonZeroExit", steps, s))
               /\ UNCHANGED infeasible
          ELSE IF SameAsParent(steps, s)
          THEN /\ stack' = Pop(stack)
               /\ ctl' = CtlRaise(Top - 1, Exc("IrrelevantPackageInstall", NoOut, <<>>))
               /\ events' = Append(events, Raised("IrrelevantPackageInstall", steps, s))
               /\ UNCHANGED infeasible
          ELSE IF cands = <<>>
          THEN /\ stack' = Pop(stack)
               /\ infeasible' = RegisterInfeasible(steps, s)
               /\ ctl' = CtlRaise(Top - 1, ResolutionError(steps, best, me.out))
               /\ events' = events \o InfeasibleEvents(steps, s)
                                    \o <<Raised("PackageResolutionError", steps, s)>>
          ELSE \* lines 534-537: the candidates are sorted
               /\ stack' = [stack EXCEPT ![Top].pc = "loop", ![Top].cands = cands, ![Top].ci = 1]
               /\ events' = Append(events, Event("rank", s, Range(cands)))
               /\ UNCHANGED <<infeasible, ctl>>
    /\ UNCHANGED <<unit, exe, env, steps, best, feasible, results, outcome, error>>

\* find_feasible_sboms, lines 534-561 and 570-587: the next candidate's child
\* step is constructed, pruned against the known SBOMs, or opened.
NothingKnownInfeasible(sbom) == FALSE
KnownInfeasible(sbom) == DependencySet(sbom) \in infeasible
SupersetOfFeasible(sbom) == \E f \in feasible : f \subseteq DependencySet(sbom)

TryCandidate ==
    /\ ctl.op = "call"
    /\ stack # <<>>
    /\ stack[Top].kind = "FFS" /\ stack[Top].pc = "loop"
    /\ stack[Top].ci <= Len(stack[Top].cands)
    /\ LET f == stack[Top]
           s == f.step
           pkg == f.cands[f.ci]
           new == NewStep(steps, steps[s].cmd, {pkg}, s)
           id == Len(steps) + 1
           st1 == Append(steps, new)
           sbom == StepSbom(st1, id)
           r == Enter(st1, id)
           created == Event("create", id, DependencySet(sbom))
       IN /\ best' = BestAfterInit(steps, best, new)
          /\ IF KnownInfeasible(sbom) \/ SupersetOfFeasible(sbom)
             THEN /\ steps' = st1
                  /\ stack' = [stack EXCEPT ![Top].ci = @ + 1]
                  /\ ctl' = ctl
                  /\ events' = events \o <<created, Event("skip", id, DependencySet(sbom))>>
             ELSE IF r.err = "ok"
             THEN /\ steps' = r.st
                  /\ stack' = Append([stack EXCEPT ![Top].pc = "child", ![Top].child = id],
                                     Frame("FFS", "run", id, f.k))
                  /\ ctl' = ctl
                  /\ events' = events \o <<created, Event("open", id, DependencySet(sbom))>>
             ELSE IF r.err = "nospace"
             THEN /\ steps' = r.st
                  /\ stack' = Pop(stack)
                  /\ ctl' = CtlRaise(Top - 1, Exc("PreinstallError", NoOut, <<>>))
                  /\ events' = events \o <<created, Event("preinstall", id, DependencySet(sbom)),
                                           Raised("PreinstallError", steps, s)>>
             ELSE /\ steps' = r.st
                  /\ stack' = [stack EXCEPT ![Top].ci = @ + 1]
                  /\ ctl' = ctl
                  /\ events' = events \o <<created, Event("preinstall", id, DependencySet(sbom))>>
    /\ UNCHANGED <<unit, exe, env, feasible, infeasible, results, outcome, error>>

\* find_feasible_sboms, lines 588-601: every candidate has been handled.
FinishCandidates ==
    /\ ctl.op = "call"
    /\ stack # <<>>
    /\ stack[Top].kind = "FFS" /\ stack[Top].pc = "loop"
    /\ stack[Top].ci > Len(stack[Top].cands)
    /\ LET f == stack[Top]
           s == f.step
       IN /\ stack' = Pop(stack)
          /\ IF f.yielded
             THEN /\ ctl' = Ctl("ret", Top - 1)
                  /\ UNCHANGED <<infeasible, events>>
             ELSE IF steps[s].level = 0
             THEN /\ ctl' = CtlRaise(Top - 1, ResolutionError(steps, best, steps[best].out))
                  /\ events' = Append(events, Raised("PackageResolutionError", steps, s))
                  /\ UNCHANGED infeasible
             ELSE /\ infeasible' = RegisterInfeasible(steps, s)
                  /\ ctl' = CtlRaise(Top - 1, ResolutionError(steps, best, steps[s].out))
                  /\ events' = events \o InfeasibleEvents(steps, s)
                                       \o <<Raised("PackageResolutionError", steps, s)>>
    /\ UNCHANGED <<unit, exe, env, steps, best, feasible, results, outcome, error>>

\* A value yielded by the generator below reaches frame ctl.at (0: the caller).
DeliverYield ==
    /\ ctl.op = "yield"
    /\ LET j == ctl.at
           f == stack[j]
       IN IF j = 0
          THEN \* the caller of main/multi_step takes the SBOM and asks for the next
               /\ results' = Append(results, [sbom |-> ctl.sbom, step |-> ctl.step])
               /\ ctl' = Ctl("next", 1)
               /\ UNCHANGED <<steps, best, feasible, stack, events>>
          ELSE IF f.kind = "FFS"
          THEN \* line 566: yield SBOM((package,)) + sbom, ss
               /\ ctl' = CtlYield(j - 1, SBOMAdd(SBOM(<<f.cands[f.ci]>>), ctl.sbom), ctl.step)
               /\ UNCHANGED <<steps, best, feasible, stack, results, events>>
          ELSE IF f.kind = "MAIN"
          THEN \* lines 273-274: self.feasible.add(sbom); yield sbom, sbom_step
               /\ feasible' = feasible \cup {DependencySet(ctl.sbom)}
               /\ ctl' = [ctl EXCEPT !.at = ConsumerOf(stack, j)]
               /\ events' = Append(events, Event("feasible", ctl.step, DependencySet(ctl.sbom)))
               /\ UNCHANGED <<steps, best, stack, results>>
          ELSE IF f.kind = "MS" /\ f.pc = "iter" /\ f.k = env.ncmds
          THEN \* lines 235-240: with sbom_step: yield sbom, sbom_step
               /\ steps' = Enter(steps, ctl.step).st
               /\ stack' = [stack EXCEPT ![j].pc = "yielded", ![j].sstep = ctl.step]
               /\ ctl' = [ctl EXCEPT !.at = ConsumerOf(stack, j)]
               /\ UNCHANGED <<best, feasible, results, events>>
          ELSE IF f.kind = "MS" /\ f.pc = "iter"
          THEN \* lines 235-250: with sbom_step: next_step = ...; with next_step: _multi_step(...)
               LET new == NewStep(steps, f.k + 1, {}, ctl.step)
                   id == Len(steps) + 1
                   st1 == Append(Enter(steps, ctl.step).st, new)
                   st2 == Enter(st1, id).st
                   st3 == Enter(Enter(st2, id).st, id).st
                   pkgs == DependencySet(StepSbom(st1, id))
               IN /\ steps' = st3
                  /\ best' = BestAfterInit(steps, best, new)
                  /\ stack' = [stack EXCEPT ![j].pc = "inner", ![j].sstep = ctl.step,
                                             ![j].nstep = id] \o StageFrames(f.k + 1, id)
                  /\ ctl' = Ctl("call", 0)
                  /\ events' = events \o <<Event("create", id, pkgs), Event("open", id, pkgs)>>
                  /\ UNCHANGED <<feasible, results>>
          ELSE IF f.kind = "MS"
          THEN \* lines 251-252: with final_step: yield final_sbom, final_step
               /\ steps' = Enter(steps, ctl.step).st
               /\ stack' = [stack EXCEPT ![j].fstep = ctl.step]
               /\ ctl' = [ctl EXCEPT !.at = ConsumerOf(stack, j)]
               /\ UNCHANGED <<best, feasible, results, events>>
          ELSE \* multi_step, line 221: yield sbom
               /\ ctl' = [ctl EXCEPT !.at = j - 1]
               /\ UNCHANGED <<steps, best, feasible, stack, results, events>>
    /\ UNCHANGED <<unit, exe, env, infeasible, outcome, error>>

\* The caller asked for the next value: frame ctl.at continues after its yield.
Resume ==
    /\ ctl.op = "next"
    /\ LET j == ctl.at
           f == stack[j]
       IN IF f.kind = "FFS" /\ f.pc = "yielded0"
          THEN \* line 495: return
               /\ stack' = Pop(stack)
               /\ ctl' = Ctl("ret", j - 1)
               /\ UNCHANGED steps
          ELSE IF f.kind = "FFS" \/ f.kind = "MAIN"
          THEN \* lines 567 and 275: yielded = True
               /\ stack' = [stack EXCEPT ![j].yielded = TRUE]
               /\ ctl' = Ctl("next", j + 1)
               /\ UNCHANGED steps
          ELSE IF f.kind = "MS" /\ f.pc = "yielded"
          THEN \* leaves `with sbom_step`
               /\ steps' = Exit(steps, f.sstep)
               /\ stack' = [stack EXCEPT ![j].pc = "iter"]
               /\ ctl' = Ctl("next", j + 1)
          ELSE IF f.kind = "MS"
          THEN \* leaves `with final_step`
               /\ steps' = Exit(steps, f.fstep)
               /\ ctl' = Ctl("next", InnerOf(stack, j))
               /\ UNCHANGED stack
          ELSE /\ ctl' = Ctl("next", j + 1)
               /\ UNCHANGED <<steps, stack>>
    /\ UNCHANGED <<unit, exe, env, best, feasible, infeasible, results, outcome, error, events>>

\* The generator that frame ctl.at iterates over is exhausted.
DeliverReturn ==
    /\ ctl.op = "ret"
    /\ LET j == ctl.at
           f == stack[j]
       IN IF j = 0
          THEN /\ outcome' = "ok"
               /\ ctl' = Ctl("done", 0)
               /\ UNCHANGED <<steps, stack>>
          ELSE IF f.kind = "FFS"
          THEN \* the child's generator ended: leave `with step`, next candidate
               /\ steps' = Exit(steps, f.child)
               /\ stack' = [stack EXCEPT ![j].pc = "loop", ![j].ci = @ + 1]
               /\ ctl' = Ctl("call", 0)
               /\ UNCHANGED outcome
          ELSE IF f.kind = "MAIN"
          THEN \* lines 266-282: leave `with existing_step`; error is None
               /\ steps' = Exit(steps, f.step)
               /\ stack' = Pop(stack)
               /\ ctl' = Ctl("ret", ConsumerOf(stack, j))
               /\ UNCHANGED outcome
          ELSE IF f.kind = "MS" /\ f.pc = "iter"
          THEN \* _main is exhausted: leave `with prev_step`
               /\ steps' = Exit(steps, f.step)
               /\ stack' = Pop(stack)
               /\ ctl' = Ctl("ret", ConsumerOf(stack, j))
               /\ UNCHANGED outcome
          ELSE IF f.kind = "MS"
          THEN \* the later commands are exhausted: leave `with next_step` and
               \* `with sbom_step`, then ask _main for the next SBOM
               /\ steps' = Exit(Exit(steps, f.nstep), f.sstep)
               /\ stack' = [stack EXCEPT ![j].pc = "iter"]
               /\ ctl' = Ctl("next", j + 1)
               /\ UNCHANGED outcome
          ELSE \* multi_step: leave `with first_step`
               /\ steps' = Exit(steps, f.step)
               /\ stack' = Pop(stack)
               /\ ctl' = Ctl("ret", j - 1)
               /\ UNCHANGED outcome
    /\ UNCHANGED <<unit, exe, env, best, feasible, infeasible, results, error, events>>

\* An exception leaves the generator that frame ctl.at iterates over.
DeliverRaise ==
    /\ ctl.op = "exc"
    /\ LET j == ctl.at
           f == stack[j]
       IN IF j = 0
          THEN /\ outcome' = ctl.exc.type
               /\ error' = ctl.exc
               /\ ctl' = Ctl("done", 0)
               /\ UNCHANGED <<steps, stack>>
          ELSE IF f.kind = "FFS" /\ ctl.exc.type \in SBOMGenerationErrors
          THEN \* lines 568-569: except SBOMGenerationError: last_error = last_error
               /\ steps' = Exit(steps, f.child)
               /\ stack' = [stack EXCEPT ![j].pc = "loop", ![j].ci = @ + 1]
               /\ ctl' = Ctl("call", 0)
               /\ UNCHANGED <<outcome, error>>
          ELSE IF f.kind = "FFS"
          THEN /\ steps' = Exit(steps, f.child)
               /\ stack' = Pop(stack)
               /\ ctl' = [ctl EXCEPT !.at = j - 1]
               /\ UNCHANGED <<outcome, error>>
          ELSE IF f.kind = "MAIN"
          THEN \* lines 276-315: caught, `with existing_step` left, raised again
               /\ steps' = Exit(steps, f.step)
               /\ stack' = Pop(stack)
               /\ ctl' = [ctl EXCEPT !.at = ConsumerOf(stack, j)]
               /\ UNCHANGED <<outcome, error>>
          ELSE IF f.kind = "MS" /\ f.pc = "iter"
          THEN /\ steps' = Exit(steps, f.step)
               /\ stack' = Pop(stack)
               /\ ctl' = [ctl EXCEPT !.at = ConsumerOf(stack, j)]
               /\ UNCHANGED <<outcome, error>>
          ELSE IF f.kind = "MS"
          THEN \* a later command failed: the three `with` blocks are left, and
               \* the suspended _main generator of this command is closed
               /\ steps' = CloseFrames(Exit(Exit(Exit(steps, f.nstep), f.sstep), f.step),
                                       SubSeq(stack, j + 1, Len(stack)))
               /\ stack' = SubSeq(stack, 1, j - 1)
               /\ ctl' = [ctl EXCEPT !.at = ConsumerOf(stack, j)]
               /\ UNCHANGED <<outcome, error>>
          ELSE /\ steps' = Exit(steps, f.step)
               /\ stack' = Pop(stack)
               /\ ctl' = [ctl EXCEPT !.at = j - 1]
               /\ UNCHANGED <<outcome, error>>
    /\ UNCHANGED <<unit, exe, env, best, feasible, infeasible, results, events>>

Next ==
    \/ Begin
    \/ RunStep
    \/ Decide
    \/ TryCandidate
    \/ FinishCandidates
    \/ DeliverYield
    \/ Resume
    \/ DeliverReturn
    \/ DeliverRaise

Spec == Init /\ [][Next]_vars

\* ---------------------------------------------------------------- Execution
\* One Execution (containers.py 43-127) with the engine container it wraps and
\* the Container that owns it, driven by every sequence of calls a single
\* thread can make. Bytes are "x" and "\n"; an optional value is <<>> (None)
\* or <<v>>.
MaxOutput == 2
MaxOps == 3

Bytes == {"x", "\n"}
Outputs == UNION {[1..n -> Bytes] : n \in 0..MaxOutput}
Drivers == {"json-file", "journald", "syslog"}
Scrollbacks == -1..MaxOutput
None == <<>>
Some(v) == <<v>>

Prefix(out, n) == SubSeq(out, 1, n)

\* bytes[-n:] of Python: the last n bytes, and all of them for n = 0 or n > len.
PySuffix(out, n) ==
    IF n = 0 \/ n >= Len(out) THEN out ELSE SubSeq(out, Len(out) - n + 1, Len(out))

\* The lines of some bytes: one per newline, plus an unterminated last one.
LineCount(out) ==
    Cardinality({i \in 1..Len(out) : out[i] = "\n"})
        + (IF out # <<>> /\ out[Len(out)] # "\n" THEN 1 ELSE 0)

\* An engine whose logs are always empty.
EngineLogsNothing(out, n) == <<>>

\* The engine's logs(tail=n): the last n lines, everything for "all" (n < 0).
EngineLogs(out, n) ==
    IF n < 0 THEN out
    ELSE LET starts == {i \in 1..(Len(out) + 1) :
                           /\ i = 1 \/ i = Len(out) + 1 \/ out[i - 1] = "\n"
                           /\ LineCount(SubSeq(out, i, Len(out))) <= n}
         IN SubSeq(out, Min(starts), Len(out))

\* Container.__enter__ / start of the owning Container (its parent is an image).
ContainerEnter(e) ==
    IF e.entries = 0
    THEN [e EXCEPT !.entries = 1, !.image = TRUE, !.commits = @ + 1]
    ELSE [e EXCEPT !.entries = @ + 1]

\* Container.__exit__ / stop of the owning Container.
ContainerExit(e) ==
    IF e.entries = 1
    THEN [e EXCEPT !.entries = 0, !.image = FALSE]
    ELSE [e EXCEPT !.entries = @ - 1]

\* docker_container.wait(): returns once the command has exited, by when it
\* has printed all it prints.
Wait(e) ==
    [e EXCEPT !.produced = Len(e.total),
              !.engine = IF @ = "running" THEN "exited" ELSE @]

\* A close that does not look at _closed.
CloseUnguarded(e) ==
    LET e1 == [e EXCEPT !.closed = TRUE, !.closes = @ + 1,
                        !.output = Some(Prefix(e.total, e.produced))]
        e2 == IF e1.exitCode = None THEN [Wait(e1) EXCEPT !.exitCode = Some(e.status)]
              ELSE e1
        e3 == [e2 EXCEPT !.engine = "removed", !.removed = @ + 1, !.released = @ + 1]
    IN ContainerExit(e3)

\* Execution.close, lines 100-115.
Close(e) ==
    IF e.closed THEN [e EXCEPT !.closes = @ + 1]
    ELSE LET e1 == [e EXCEPT !.closed = TRUE, !.closes = @ + 1,
                            !.output = Some(Prefix(e.total, e.produced))]
             e2 == IF e1.exitCode = None
                   THEN [Wait(e1) EXCEPT !.exitCode = Some(e.status)]
                   ELSE e1
             e3 == [e2 EXCEPT !.engine = "removed", !.removed = @ + 1,
                              !.released = @ + 1]
         IN ContainerExit(e3)

\* Execution.done, lines 58-74: [e |-> the execution afterwards, val |-> result].
\* The NotFound branch needs another thread to have removed the container.
Done(e) ==
    IF e.closed THEN [e |-> e, val |-> TRUE]
    ELSE IF e.engine = "exited" THEN [e |-> Close(e), val |-> TRUE]
    ELSE [e |-> e, val |-> FALSE]

\* Execution.exit_code, lines 76-88, a cached property.
ExitCodeOf(e) ==
    IF e.cached # None THEN [e |-> e, val |-> e.cached[1]]
    ELSE LET e1 == IF e.exitCode = None
                   THEN Close([Wait(e) EXCEPT !.exitCode = Some(e.status)])
                   ELSE e
         IN [e |-> [e1 EXCEPT !.cached = e1.exitCode], val |-> e1.exitCode[1]]

\* Execution.output, lines 90-98.
Output(e) ==
    LET e1 == ExitCodeOf(e).e
        e2 == IF e1.output = None THEN Close(e1) ELSE e1
    IN [e |-> e2, val |-> IF e2.output = None THEN <<>> ELSE e2.output[1]]

\* A logs that returns nothing once the execution is closed.
LogsEmptyWhenClosed(e, n) ==
    IF e.closed THEN [e |-> e, val |-> <<>>]
    ELSE [e |-> e, val |-> EngineLogs(Prefix(e.total, e.produced), n)]

\* Execution.logs, lines 117-127.
Logs(e, n) ==
    LET d == Done(e) IN
    IF d.val
    THEN LET o == Output(d.e)
         IN [e |-> o.e, val |-> IF n < 0 THEN o.val ELSE PySuffix(o.val, n)]
    ELSE [e |-> e, val |-> EngineLogs(Prefix(e.total, e.produced), n)]

\* The record of the last call: what was called, with which scrollback, what
\* it returned, and what the execution and its command were like at the call
\* (early: close() had been called while the command was still running).
Ret(op, n, val, e) ==
    [op |-> op, n |-> n, val |-> val, wasClosed |-> e.closed,
     hadExited |-> e.engine # "running", printed |-> Prefix(e.total, e.produced),
     early |-> e.early]

NoRet == [op |-> "none"]

SearchUnused ==
    /\ env = [mode |-> "none"]
    /\ steps = <<>>
    /\ best = 0
    /\ feasible = {}
    /\ infeasible = {}
    /\ stack = <<>>
    /\ ctl = Ctl("done", 0)
    /\ results = <<>>
    /\ outcome = "idle"
    /\ error = NoExc
    /\ events = <<>>

\* A Container, entered by the caller (`with container:`) or not, and a
\* command that will print `total` and exit with `status`.
ExecInit ==
    /\ \E total \in Outputs, status \in {0, 1}, driver \in Drivers, held \in {0, 1} :
           exe = [phase    |-> "new",
                  total    |-> total,
                  status   |-> status,
                  driver   |-> driver,
                  held     |-> held,
                  caller   |-> held,
                  entries  |-> held,
                  image    |-> held = 1,
                  commits  |-> held,
                  engine   |-> "none",
                  produced |-> 0,
                  closed   |-> FALSE,
                  output   |-> None,
                  exitCode |-> None,
                  cached   |-> None,
                  closes   |-> 0,
                  early    |-> FALSE,
                  removed  |-> 0,
                  released |-> 0,
                  ops      |-> 0,
                  ret      |-> NoRet]
    /\ unit = [kind |-> "unused"]
    /\ SearchUnused

\* Container.run, lines 267-281, with create, 227-265: the Container is
\* entered, the engine container created and started, the Execution
\* constructed; an unsupported logging driver makes the constructor raise
\* NotImplementedError, a RuntimeError, on which run leaves the Container.
ExecRun ==
    /\ exe.phase = "new"
    /\ LET e1 == [ContainerEnter(exe) EXCEPT !.engine = "running"]
       IN exe' = IF exe.driver \in {"json-file", "journald"}
                 THEN [e1 EXCEPT !.phase = "live"]
                 ELSE [ContainerExit(e1) EXCEPT !.phase = "failed"]
    /\ UNCHANGED <<unit, vars>>

\* The command prints its next byte.
EngineOutput ==
    /\ exe.engine = "running"
    /\ exe.produced < Len(exe.total)
    /\ exe' = [exe EXCEPT !.produced = @ + 1]
    /\ UNCHANGED <<unit, vars>>

\* The command exits, having printed everything.
EngineExit ==
    /\ exe.engine = "running"
    /\ exe.produced = Len(exe.total)
    /\ exe' = [exe EXCEPT !.engine = "exited"]
    /\ UNCHANGED <<unit, vars>>

\* The caller leaves its own `with container:`.
CallerExit ==
    /\ exe.phase \in {"live", "failed"}
    /\ exe.caller = 1
    /\ exe' = [ContainerExit(exe) EXCEPT !.caller = 0]
    /\ UNCHANGED <<unit, vars>>

Called(op, n, r) ==
    exe' = [r.e EXCEPT !.ops = @ + 1, !.ret = Ret(op, n, r.val, exe)]

CallDone ==
    /\ exe.phase = "live" /\ exe.ops < MaxOps
    /\ Called("done", 0, Done(exe))
    /\ UNCHANGED <<unit, vars>>

CallExitCode ==
    /\ exe.phase = "live" /\ exe.ops < MaxOps
    /\ Called("exit_code", 0, ExitCodeOf(exe))
    /\ UNCHANGED <<unit, vars>>

CallOutput ==
    /\ exe.phase = "live" /\ exe.ops < MaxOps
    /\ Called("output", 0, Output(exe))
    /\ UNCHANGED <<unit, vars>>

CallClose ==
    /\ exe.phase = "live" /\ exe.ops < MaxOps
    /\ Called("close", 0, [e |-> [Close(exe) EXCEPT !.early = @ \/ exe.engine = "running"],
                            val |-> None])
    /\ UNCHANGED <<unit, vars>>

CallLogs ==
    /\ exe.phase = "live" /\ exe.ops < MaxOps
    /\ \E n \in Scrollbacks : Called("logs", n, Logs(exe, n))
    /\ UNCHANGED <<unit, vars>>

ExecNext ==
    \/ ExecRun
    \/ EngineOutput
    \/ EngineExit
    \/ CallerExit
    \/ CallDone
    \/ CallExitCode
    \/ CallOutput
    \/ CallClose
    \/ CallLogs

ExecSpec == ExecInit /\ [][ExecNext]_<<unit, exe, vars>>

\* ---------------------------------------------------------------- files_exist
\* Container.files_exist (containers.py 189-222) called once. A path is a
\* number; -p is path p written with surrounding whitespace, another file.
BatchSize == 255
MaxBatches == 2

Ceil(n, d) == (n + d - 1) \div d

\* str.strip() on a path and on a line of the helper's output.
Strip(p) == IF p < 0 THEN -p ELSE p

\* batched(list, n): consecutive chunks of at most n elements.
Batched(list, n) ==
    [k \in 1..Ceil(Len(list), n) |->
        SubSeq(list, (k - 1) * n + 1, Min({k * n, Len(list)}))]

PathCounts == {0, 1, 2} \cup {k * BatchSize + d : k \in 1..MaxBatches, d \in {-1, 0, 1}}

\* list(str_paths): the paths in one of the orders a set can iterate in.
PathList(n, variant, rev) ==
    LET base == [i \in 1..n |-> IF rev THEN n + 1 - i ELSE i] IN
    IF n = 0 \/ variant = "plain" THEN base
    ELSE IF variant = "twin" THEN <<-1>> \o base
    ELSE [i \in 1..n |-> IF base[i] = 1 THEN -1 ELSE base[i]]

\* The files that do not exist in the snapshot.
MissingOf(paths, which) ==
    CASE which = "none"   -> {}
      [] which = "all"    -> paths
      [] which = "even"   -> {q \in paths : q % 2 = 0}
      [] which = "padded" -> {q \in paths : q < 0}

SearchAndExecUnused ==
    /\ exe = [phase |-> "unused"]
    /\ SearchUnused

FilesInit ==
    /\ \E n \in PathCounts, variant \in {"plain", "twin", "padded"}, rev \in BOOLEAN,
          which \in {"none", "all", "even", "padded"}, failAt \in 0..(MaxBatches + 1) :
          LET list == PathList(n, variant, rev) IN
          unit = [kind    |-> "files_exist",
                  pc      |-> "called",
                  list    |-> list,
                  paths   |-> Range(list),
                  missing |-> MissingOf(Range(list), which),
                  failAt  |-> failAt,
                  batches |-> <<>>,
                  next    |-> 1,
                  calls   |-> <<>>,
                  keys    |-> {},
                  false   |-> {},
                  entries |-> 0,
                  opens   |-> 0]
    /\ SearchAndExecUnused

\* Lines 192-198: no path, an empty map at once; else every stripped path
\* maps to True, the snapshot is opened and the list cut into batches.
FilesCall ==
    /\ unit.kind = "files_exist" /\ unit.pc = "called"
    /\ unit' = IF unit.paths = {}
               THEN [unit EXCEPT !.pc = "returned"]
               ELSE [unit EXCEPT !.pc = "batches",
                                 !.keys = {Strip(q) : q \in unit.paths},
                                 !.entries = @ + 1,
                                 !.opens = @ + 1,
                                 !.batches = Batched(unit.list, BatchSize)]
    /\ UNCHANGED <<exe, vars>>

\* Lines 205-220: one helper invocation on the next batch; a nonzero exit
\* raises RuntimeError, else each line of output, stripped, maps to False.
FilesBatch ==
    /\ unit.kind = "files_exist" /\ unit.pc = "batches"
    /\ unit.next <= Len(unit.batches)
    /\ LET files == unit.batches[unit.next]
           lines == {Strip(q) : q \in Range(files) \cap unit.missing}
           u1 == [unit EXCEPT !.calls = Append(@, files)]
       IN unit' = IF unit.failAt = unit.next
                  THEN [u1 EXCEPT !.pc = "raised", !.entries = @ - 1]
                  ELSE [u1 EXCEPT !.next = @ + 1,
                                  !.keys = @ \cup lines,
                                  !.false = @ \cup lines]
    /\ UNCHANGED <<exe, vars>>

\* Line 221: the map is returned and the snapshot left.
FilesReturn ==
    /\ unit.kind = "files_exist" /\ unit.pc = "batches"
    /\ unit.next > Len(unit.batches)
    /\ unit' = [unit EXCEPT !.pc = "returned", !.entries = @ - 1]
    /\ UNCHANGED <<exe, vars>>

FilesNext ==
    \/ FilesCall
    \/ FilesBatch
    \/ FilesReturn

FilesSpec == FilesInit /\ [][FilesNext]_<<unit, exe, vars>>

\* ---------------------------------------------------------------- the cache
\* SQLCache (cache.py 89-174) for one package manager: the store on disk, the
\* open cache, and the adapter's enumeration E of (filename, packages)
\* entries. A filename is a sequence of characters; the table `files` is the
\* sequence of its rows.
MaxName == 2
MaxEntries == 2
MaxCacheOps == 3

Chars == {"/", "x"}
StoredNames == UNION {[1..n -> Chars] : n \in 1..MaxName}
Queries == UNION {[1..n -> Chars] : n \in 0..(MaxName + 1)}
Entries == [filename : StoredNames, pkgs : SUBSET Packages]
Enumerations == UNION {[1..n -> Entries] : n \in 0..MaxEntries}

\* executemany at lines 136-139: one row per package of the entry.
RowsOfEntry(e) == [i \in 1..Cardinality(e.pkgs) |->
                      [filename |-> e.filename, package |-> SetToSeq(e.pkgs)[i]]]

RECURSIVE RowsOf(_)
RowsOf(E) == IF E = <<>> THEN <<>>
             ELSE RowsOf(SubSeq(E, 1, Len(E) - 1)) \o RowsOfEntry(E[Len(E)])

\* A failed build that leaves on disk the rows inserted before the failure.
BuildKeepingPartial(E, fail) ==
    IF fail.armed
    THEN [raised |-> TRUE, disk |-> Some(RowsOf(SubSeq(E, 1, fail.at)))]
    ELSE [raised |-> FALSE, disk |-> Some(RowsOf(E))]

\* from_iterable, lines 124-145: the store is created and filled in one
\* transaction; when the enumeration or an insert raises after fail.at
\* entries, the transaction is rolled back, the file unlinked and the error
\* raised again.
Build(E, fail) ==
    IF fail.armed
    THEN [raised |-> TRUE, disk |-> None]
    ELSE [raised |-> FALSE, disk |-> Some(RowsOf(E))]

\* A lookup that finds nothing.
ProvidesNothing(rows, filename) == {}

\* packages_providing, lines 151-154.
PackagesProviding(rows, filename) ==
    {rows[i].package : i \in {j \in 1..Len(rows) : rows[j].filename = filename}}

\* A lookup that strips every leading separator.
RECURSIVE GetItemStrippingAll(_, _)
GetItemStrippingAll(rows, filename) ==
    IF filename # <<>> /\ filename[1] = "/"
    THEN GetItemStrippingAll(rows, Tail(filename))
    ELSE PackagesProviding(rows, filename)

\* Cache.__getitem__, lines 29-38: one leading "/" is dropped.
GetItem(rows, filename) ==
    IF filename # <<>> /\ filename[1] = "/"
    THEN PackagesProviding(rows, Tail(filename))
    ELSE PackagesProviding(rows, filename)

FilenamesOf(rows) == {rows[i].filename : i \in 1..Len(rows)}

\* The loop of __iter__, lines 102-115, over the rows the query returned:
\* cur is the filename being gathered (None or Some), pkgs its packages.
RECURSIVE IterLoop(_, _, _, _)
IterLoop(fetched, i, cur, pkgs) ==
    IF i > Len(fetched)
    THEN IF cur # None THEN <<[filename |-> cur[1], pkgs |-> pkgs]>> ELSE <<>>
    ELSE IF cur = None THEN IterLoop(fetched, i + 1, Some(fetched[i].filename), pkgs)
    ELSE IF cur[1] = fetched[i].filename
         THEN IterLoop(fetched, i + 1, cur, pkgs \cup {fetched[i].package})
    ELSE <<[filename |-> cur[1], pkgs |-> pkgs]>> \o IterLoop(fetched, i + 1, None, {})

\* `SELECT filename, package FROM files GROUP BY filename`, line 100: one row
\* per filename, in an order and with a package of that filename that the
\* backing store chooses.
GroupedRows(rows) ==
    {r \in [1..Cardinality(FilenamesOf(rows)) -> Range(rows)] :
        \A i, j \in DOMAIN r : r[i].filename = r[j].filename => i = j}

CacheInit ==
    /\ \E E \in Enumerations, present \in BOOLEAN :
       \E armed \in BOOLEAN, at \in 0..Len(E) :
          /\ armed \/ at = 0
          /\ unit = [kind   |-> "cache",
                     E      |-> E,
                     fail   |-> [armed |-> armed, at |-> at],
                     disk   |-> IF present THEN Some(RowsOf(E)) ELSE None,
                     conn   |-> None,
                     builds |-> 0,
                     failed |-> 0,
                     ops    |-> 0,
                     ret    |-> NoRet]
    /\ SearchAndExecUnused

CacheCalled(op, arg, val, u) ==
    unit' = [u EXCEPT !.ops = unit.ops + 1,
                      !.ret = [op |-> op, arg |-> arg, val |-> val,
                               before |-> unit.disk]]

\* from_disk, lines 117-122: an existing store is opened, else built from the
\* enumeration; a failure of the enumeration happens once.
OpenFrom(u) ==
    IF u.disk # None THEN [u |-> [u EXCEPT !.conn = u.disk], raised |-> FALSE]
    ELSE LET b == Build(u.E, u.fail)
         IN [u |-> [u EXCEPT !.disk = b.disk,
                             !.conn = IF b.raised THEN @ ELSE b.disk,
                             !.builds = @ + 1,
                             !.failed = IF b.raised THEN @ + 1 ELSE @,
                             !.fail = [armed |-> FALSE, at |-> 0]],
             raised |-> b.raised]

CacheOpen ==
    /\ unit.kind = "cache" /\ unit.ops < MaxCacheOps
    /\ LET r == OpenFrom(unit) IN CacheCalled("open", <<>>, r.raised, r.u)
    /\ UNCHANGED <<exe, vars>>

\* load_cache(rebuild=True), cli.py 71-85: an existing store is unlinked first.
CacheRebuild ==
    /\ unit.kind = "cache" /\ unit.ops < MaxCacheOps
    /\ LET r == OpenFrom([unit EXCEPT !.disk = None])
       IN CacheCalled("rebuild", <<>>, r.raised, r.u)
    /\ UNCHANGED <<exe, vars>>

\* SQLCache.delete, lines 175-176, on a store that exists.
CacheDelete ==
    /\ unit.kind = "cache" /\ unit.ops < MaxCacheOps
    /\ unit.conn # None /\ unit.disk # None
    /\ CacheCalled("delete", <<>>, FALSE, [unit EXCEPT !.disk = None])
    /\ UNCHANGED <<exe, vars>>

CacheLookup ==
    /\ unit.kind = "cache" /\ unit.ops < MaxCacheOps
    /\ unit.conn # None
    /\ \E q \in Queries : CacheCalled("lookup", q, GetItem(unit.conn[1], q), unit)
    /\ UNCHANGED <<exe, vars>>

CacheIterate ==
    /\ unit.kind = "cache" /\ unit.ops < MaxCacheOps
    /\ unit.conn # None
    /\ \E fetched \in GroupedRows(unit.conn[1]) :
           CacheCalled("iterate", <<>>, IterLoop(fetched, 1, None, {}), unit)
    /\ UNCHANGED <<exe, vars>>

CacheNext ==
    \/ CacheOpen
    \/ CacheRebuild
    \/ CacheDelete
    \/ CacheLookup
    \/ CacheIterate

CacheSpec == CacheInit /\ [][CacheNext]_<<unit, exe, vars>>

\* ---------------------------------------------------------------- the SBOM value type
\* SBOM.__init__ keeps the tuple it is given, repetitions included, and the
\* frozenset of it. The operations of the class are exercised on two SBOMs
\* built from arbitrary tuples of packages.
MaxDeps == 2
MaxSbomOps == 2
DependencyTuples == UNION {[1..n -> Packages] : n \in 0..MaxDeps}

\* hash() of a string depends on the process's hash seed; hash() of a
\* frozenset combines the hashes of its elements irrespective of their order.
HashSeeds == {0, 1}
StrHash(p, seed) == (3 * p + seed) % 4

RECURSIVE FrozensetHash(_, _)
FrozensetHash(S, seed) ==
    IF S = {} THEN 0
    ELSE LET m == Min(S) IN (StrHash(m, seed) + FrozensetHash(S \ {m}, seed)) % 4

SBOMHash(sbom, seed) == FrozensetHash(DependencySet(sbom), seed)

\* __add__ with a package name, line 69.
SBOMAddPackage(a, p) == SBOM(a \o <<p>>)

SbomInit ==
    /\ \E x, y \in DependencyTuples, seed \in HashSeeds :
           unit = [kind |-> "sbom", x |-> SBOM(x), y |-> SBOM(y), seed |-> seed,
                   ops |-> 0, ret |-> [op |-> "none", val |-> FALSE, x |-> <<>>, y |-> <<>>]]
    /\ SearchAndExecUnused

SbomCalled(op, val) ==
    unit' = [unit EXCEPT !.ops = @ + 1,
                         !.ret = [op |-> op, val |-> val, x |-> unit.x, y |-> unit.y]]

\* x == y
SbomEq ==
    /\ unit.kind = "sbom" /\ unit.ops < MaxSbomOps
    /\ SbomCalled("eq", SBOMEq(unit.x, unit.y))
    /\ UNCHANGED <<exe, vars>>

\* (hash(x), hash(y))
SbomHash ==
    /\ unit.kind = "sbom" /\ unit.ops < MaxSbomOps
    /\ SbomCalled("hash", <<SBOMHash(unit.x, unit.seed), SBOMHash(unit.y, unit.seed)>>)
    /\ UNCHANGED <<exe, vars>>

\* x + y
SbomAdd ==
    /\ unit.kind = "sbom" /\ unit.ops < MaxSbomOps
    /\ SbomCalled("add", SBOMAdd(unit.x, unit.y))
    /\ UNCHANGED <<exe, vars>>

\* x + package
SbomAddPackage ==
    /\ unit.kind = "sbom" /\ unit.ops < MaxSbomOps
    /\ \E p \in Packages : SbomCalled("addpkg", SBOMAddPackage(unit.x, p))
    /\ UNCHANGED <<exe, vars>>

\* x.issuperset(y)
SbomIsSuperset ==
    /\ unit.kind = "sbom" /\ unit.ops < MaxSbomOps
    /\ SbomCalled("issuperset", IsSuperset(unit.x, unit.y))
    /\ UNCHANGED <<exe, vars>>

SbomNext ==
    \/ SbomEq
    \/ SbomHash
    \/ SbomAdd
    \/ SbomAddPackage
    \/ SbomIsSuperset

SbomSpec == SbomInit /\ [][SbomNext]_<<unit, exe, vars>>

\* ---------------------------------------------------------------- the strace line parser
\* A log line is a sequence of lexical pieces; each piece is a run of
\* characters that the three patterns of strace.py cannot tell apart.
Digits == {"0", "3"}
Spaces == {" "}
Words == {"open", "SIGCHLD", "SIGSEGV", "junk", "\"/a\""}
Pieces == Digits \cup Spaces \cup Words \cup
          {"+++", "exited with ", "killed by ", "---", "{si}", "[pid 11]",
           "(", ")", "=", "-", "<...", "resumed>", "<unfinished ...>"}

\* \S: the pieces without whitespace in them
NonSpace == Pieces \ (Spaces \cup {"exited with ", "killed by ", "[pid 11]", "<unfinished ...>"})

IntOf(d) == IF d = "0" THEN 0 ELSE 3

\* One item of a pattern: pieces of class `of`, at least min of them, more
\* than one if many, as few as possible if lazy.
Item(of, min, many, lazy) == [of |-> of, min |-> min, many |-> many, lazy |-> lazy]
Lit(piece)  == Item({piece}, 1, FALSE, FALSE)
Star(of)    == Item(of, 0, TRUE, FALSE)
Plus(of)    == Item(of, 1, TRUE, FALSE)
Opt(of)     == Item(of, 0, FALSE, FALSE)
LazyStar(of) == Item(of, 0, TRUE, TRUE)

\* The length of the longest run of pieces of a class in s from position i.
RECURSIVE RunLength(_, _, _)
RunLength(s, i, of) ==
    IF i <= Len(s) /\ s[i] \in of THEN 1 + RunLength(s, i + 1, of) ELSE 0

\* re.match of the items pat[k..] on s from position i, by backtracking: the
\* positions at which the items start, followed by the end of the match.
RECURSIVE MatchFrom(_, _, _, _)
MatchFrom(pat, k, s, i) ==
    IF k > Len(pat) THEN Some(<<i>>)
    ELSE LET it == pat[k]
             run == RunLength(s, i, it.of)
             most == IF it.many THEN run ELSE Min({run, 1})
             ok == {n \in it.min..most : MatchFrom(pat, k + 1, s, i + n) # None}
         IN IF ok = {} THEN None
            ELSE LET n == IF it.lazy THEN Min(ok) ELSE Max(ok)
                 IN Some(<<i>> \o MatchFrom(pat, k + 1, s, i + n)[1])

Match(pat, s) == MatchFrom(pat, 1, s, 1)

\* The pieces item k of the pattern matched.
Group(m, k, s) == SubSeq(s, m[1][k], m[1][k + 1] - 1)

\* strace_pattern, lines 285-288, without and with the optional pid group.
StracePattern ==
    <<Star(Spaces), Plus(Pieces), Lit("("), Plus(Pieces \ {")"}), Lit(")"),
      Star(Spaces), Lit("="), Star(Spaces), Opt({"-"}), Plus(Digits), Star(Pieces)>>
StracePatternPid == <<Star(Spaces), Star(Digits), Plus(Spaces)>> \o Tail(StracePattern)

\* strace_ignore_pattern, lines 289-291: its two alternatives.
IgnoreExited ==
    <<LazyStar(Pieces), Lit("+++"), Star(Spaces), Lit("exited with "), Plus(Digits),
      Star(Spaces), Lit("+++"), Star(Pieces)>>
IgnoreSigchld ==
    <<LazyStar(Pieces), Lit("---"), Star(Spaces), Lit("SIGCHLD"), Star(Pieces)>>

\* strace_resumed_pattern, lines 292-294.
ResumedPattern ==
    <<LazyStar(Pieces), Lit("<..."), Star(Spaces), Plus(NonSpace), Plus(Spaces),
      Lit("resumed>"), Star(Pieces)>>

\* line.replace("<unfinished ...>", ")"), line 298.
ReplaceUnfinished(line) ==
    [i \in 1..Len(line) |-> IF line[i] = "<unfinished ...>" THEN ")" ELSE line[i]]

\* Lines 300-302: a resumed line becomes "syscall(remainder".
RewriteResumed(line) ==
    LET m == Match(ResumedPattern, line)
    IN IF m = None THEN line
       ELSE Group(m, 4, line) \o <<"(">> \o Group(m, 7, line)

NullMarker == [raised |-> FALSE, syscall |-> None, args |-> <<>>, retval |-> 1]
ParseError == [raised |-> TRUE, syscall |-> None, args |-> <<>>, retval |-> 0]

\* What a match of strace_pattern returns, lines 305-310: the syscall, the
\* text handed to parse_syscall_args, which nobody has iterated yet, and the
\* return value as an integer.
Parsed(m, off, line) ==
    LET sign == Group(m, off + 9, line)
        num == Group(m, off + 10, line)
    IN [raised |-> FALSE,
        syscall |-> Some(Group(m, off + 2, line)),
        args |-> Group(m, off + 4, line),
        retval |-> IF sign = <<>> THEN IntOf(num[Len(num)]) ELSE 0 - IntOf(num[Len(num)])]

Ignored(line) == Match(IgnoreExited, line) # None \/ Match(IgnoreSigchld, line) # None

\* parse_strace_log_line, lines 297-314.
ParseStraceLogLine(line0) ==
    LET line == RewriteResumed(ReplaceUnfinished(line0))
        withPid == Match(StracePatternPid, line)
        without == Match(StracePattern, line)
    IN IF withPid # None THEN Parsed(withPid, 2, line)
       ELSE IF without # None THEN Parsed(without, 0, line)
       ELSE IF ~Ignored(line) THEN ParseError
       ELSE NullMarker

\* The lines of a log: the forms strace prints, with or without a pid and
\* trailing text, and what is left of them when pieces are missing.
MaxDropped == 1
Pids == {<<>>, <<"3", " ">>, <<"[pid 11]", " ">>}
ExitBodies == {<<"+++", " ", "exited with ", d, " ", "+++">> : d \in Digits}
                  \cup {<<"+++", "exited with ", "3", "+++">>}
SignalBodies == {<<"---", " ", sig, " ", "{si}", " ", "---">> : sig \in {"SIGCHLD", "SIGSEGV"}}
                    \cup {<<"---", " ", sig, " ", "---">> : sig \in {"SIGCHLD", "SIGSEGV"}}
CallBodies == {<<"open", "(", "\"/a\"", ")", " ", "=", " ", "3">>,
               <<"open", "(", "\"/a\"", ")", " ", "=", " ", "-", "3", " ", "junk">>,
               <<"open", "(", ")", " ", "=", " ", "0">>,
               <<"<...", " ", "open", " ", "resumed>", "\"/a\"", ")", " ", "=", " ", "3">>,
               <<"open", "(", "\"/a\"", "<unfinished ...>">>}
OtherBodies == {<<>>, <<"junk">>, <<"+++", " ", "killed by ", "SIGSEGV", " ", "+++">>}
Bodies == ExitBodies \cup SignalBodies \cup CallBodies \cup OtherBodies

Drop(line, k) == IF k > Len(line) THEN line
                 ELSE SubSeq(line, 1, k - 1) \o SubSeq(line, k + 1, Len(line))

RECURSIVE Dropped(_, _)
Dropped(L, n) ==
    IF n = 0 THEN L
    ELSE Dropped(L, n - 1) \cup
         {Drop(line, k) : line \in Dropped(L, n - 1), k \in 1..Max({Len(l) : l \in L})}

LogLines == Dropped({pid \o body : pid \in Pids, body \in Bodies}, MaxDropped)

StraceInit ==
    /\ \E line \in LogLines :
           unit = [kind |-> "strace", pc |-> "read", line |-> line, result |-> NullMarker]
    /\ SearchAndExecUnused

ParseLine ==
    /\ unit.kind = "strace" /\ unit.pc = "read"
    /\ unit' = [unit EXCEPT !.pc = "parsed", !.result = ParseStraceLogLine(unit.line)]
    /\ UNCHANGED <<exe, vars>>

StraceNext == ParseLine

StraceSpec == StraceInit /\ [][StraceNext]_<<unit, exe, vars>>

\* ---------------------------------------------------------------- the lazy path extractor
\* Here a line is a sequence of characters: the two quotation marks, the
\* backslash, the slash, and a letter that is also the name of an escape.
MaxLine == 5
LineChars == {"\"", "'", "\\", "/", "n"}
QuoteChars == {"\"", "'"}
RawLines == UNION {[1..n -> LineChars] : n \in 0..MaxLine}

\* The table `escapes`, line 160 (its \b entry has no counterpart here).
EscapeLetters == {"n", "t", "r", "\\", "\"", "'"}
Escapes(c) == CASE c = "n" -> "\n"
                [] c = "t" -> "\t"
                [] c = "r" -> "\r"
                [] OTHER -> c

\* parse_escape at a backslash, lines 163-173: the decoded text and the
\* offset after it. At the end of the text next() returns "" and stays.
ParseEscapeVerbatim(line, j) ==
    IF j + 1 > Len(line) THEN [value |-> <<>>, next |-> j + 1]
    ELSE [value |-> <<line[j + 1]>>, next |-> j + 2]
ParseEscape(line, j) ==
    IF j + 1 > Len(line) THEN [value |-> <<>>, next |-> j + 1]
    ELSE LET c == line[j + 1]
         IN [value |-> <<IF c \in EscapeLetters THEN Escapes(c) ELSE c>>, next |-> j + 2]

\* The loop of parse_quoted_string, lines 193-204, after the opening quote.
RECURSIVE QuotedLoop(_, _, _, _)
QuotedLoop(line, quote_char, j, parsed) ==
    IF j > Len(line) THEN None                       \* EndOfStringError
    ELSE IF line[j] = quote_char THEN Some([value |-> parsed, next |-> j + 1])
    ELSE IF line[j] = "\\"
         THEN LET e == ParseEscape(line, j)
              IN QuotedLoop(line, quote_char, e.next, parsed \o e.value)
    ELSE QuotedLoop(line, quote_char, j + 1, Append(parsed, line[j]))

\* try_production(parse_quoted_string) at an offset, lines 120-125, 187-206:
\* None when a ParseError was raised, else the string and the new offset.
ParseQuotedString(line, i) ==
    IF i > Len(line) \/ line[i] \notin QuoteChars THEN None
    ELSE QuotedLoop(line, line[i], i + 1, <<>>)

\* The test the step makes on what the extractor yields,
\* dependencies.py 476-478.
StartsWithSlash(arg) == arg # <<>> /\ arg[1] = "/"

PathsInit ==
    /\ \E line \in RawLines :
           unit = [kind |-> "paths", pc |-> "scan", line |-> line, offset |-> 1,
                   yielded |-> <<>>, accessed_files |-> {}]
    /\ SearchAndExecUnused

\* One round of the loop of lazy_parse_paths, lines 319-324, with the body
\* of the step's for loop for a yielded string.
LazyStep ==
    /\ unit.kind = "paths" /\ unit.pc = "scan" /\ unit.offset <= Len(unit.line)
    /\ LET result == ParseQuotedString(unit.line, unit.offset)
       IN IF result # None
          THEN unit' = [unit EXCEPT
                   !.offset = result[1].next,
                   !.yielded = Append(@, result[1].value),
                   !.accessed_files = IF StartsWithSlash(result[1].value)
                                      THEN @ \cup {result[1].value} ELSE @]
          ELSE unit' = [unit EXCEPT !.offset = @ + 1]
    /\ UNCHANGED <<exe, vars>>

\* The text is used up: the generator returns and the for loop ends.
LazyDone ==
    /\ unit.kind = "paths" /\ unit.pc = "scan" /\ unit.offset > Len(unit.line)
    /\ unit' = [unit EXCEPT !.pc = "done"]
    /\ UNCHANGED <<exe, vars>>

PathsNext ==
    \/ LazyStep
    \/ LazyDone

PathsSpec == PathsInit /\ [][PathsNext]_<<unit, exe, vars>>

\* ---------------------------------------------------------------- the command line
\* cli.main from the loading of the cache on (line 247), for a command line
\* that names a command, together with the generator SBOMGenerator.main it
\* iterates over. What find_feasible_sboms does is an input here: at every
\* resumption it yields an SBOM, returns, or raises.
MaxYields == 2
CliExceptions == SBOMGenerationErrors \cup
                 {"PackageDatabaseNotFoundError", "DockerException", "Timeout",
                  "KeyboardInterrupt", "OSError"}

\* The except clauses of main, lines 383-438, in their order. The level of
\* the module's own logger is never set, so line 391 re-raises a Timeout.
Handle(exc) ==
    IF exc = "DockerException" THEN [status |-> 1, escaped |-> "none"]
    ELSE IF exc = "Timeout" THEN [status |-> 0, escaped |-> exc]
    ELSE IF exc = "PackageDatabaseNotFoundError" THEN [status |-> 1, escaped |-> "none"]
    ELSE IF exc = "PreinstallError" THEN [status |-> 1, escaped |-> "none"]
    ELSE IF exc \in SBOMGenerationErrors THEN [status |-> 1, escaped |-> "none"]
    ELSE IF exc = "KeyboardInterrupt" THEN [status |-> 1, escaped |-> "none"]
    ELSE [status |-> 0, escaped |-> exc]

\* main is left: by a return statement, or by an exception that escapes.
Left(u, cause, h) ==
    [u EXCEPT !.pc = "exited", !.cause = cause, !.status = h.status, !.escaped = h.escaped]
Return(u, cause, status) == Left(u, cause, [status |-> status, escaped |-> "none"])

\* What find_feasible_sboms may raise: a PackageResolutionError carries the
\* command's output (None, empty or not) and a partial SBOM (None or empty
\* count the same at lines 408 and 422-426).
CliOutputs == {NoOut, <<>>, <<2, 1>>}
CliPartials == {SBOM(<<>>), SBOM(<<2, 1>>)}
CliErrors ==
    {Exc(t, NoOut, SBOM(<<>>)) : t \in CliExceptions \ {"PackageResolutionError"}}
        \cup {Exc("PackageResolutionError", out, partial) :
                  out \in CliOutputs, partial \in CliPartials}

\* "\n".join(map(str, partial_sbom)), line 410.
RECURSIVE JoinLines(_)
JoinLines(names) ==
    IF names = <<>> THEN <<>>
    ELSE IF Len(names) = 1 THEN <<ToString(names[1])>>
    ELSE <<ToString(names[1]), "\n">> \o JoinLines(Tail(names))

\* The log directory is absent (None) or holds files; a file that was in it
\* before the run is OldFile.
OldFile == [name |-> "old.txt", data |-> <<"old">>]
File(name, data) == [name |-> name, data |-> data]

\* open(log_dir / name, "w") and write: the file replaces one of that name.
\* In a directory that does not exist open raises FileNotFoundError.
WriteFile(dir, f) ==
    IF dir = None THEN None ELSE Some({g \in dir[1] : g.name # f.name} \cup {f})

\* The files the handler of SBOMGenerationError writes, lines 407-428.
Artifacts(err) ==
    IF err.type # "PackageResolutionError" THEN <<>>
    ELSE (IF err.partial # <<>>
          THEN <<File("most_promising_sbom.txt", JoinLines(err.partial))>> ELSE <<>>)
         \o (IF err.out # NoOut /\ err.out # <<>>
             THEN <<File("final_output.txt", err.out)>> ELSE <<>>)

RECURSIVE WriteAll(_, _)
WriteAll(dir, files) ==
    IF files = <<>> THEN dir ELSE WriteAll(WriteFile(dir, files[1]), Tail(files))

\* An exception reaches the except clauses of main.
Caught(u, err) ==
    IF Artifacts(err) # <<>> /\ u.dir = None
    THEN Left([u EXCEPT !.err = err], err.type,
              [status |-> 0, escaped |-> "FileNotFoundError"])
    ELSE Left([u EXCEPT !.err = err, !.dir = WriteAll(u.dir, Artifacts(err))],
              err.type, Handle(err.type))

\* _main, lines 271-315, when find_feasible_sboms raises: the exception is
\* stored, and raised again at line 315 unless it is a KeyboardInterrupt,
\* after which the generator returns.
Reraised(exc) == exc # "KeyboardInterrupt"

CliInit ==
    /\ \E search, all, tty, local, log_dir, force \in BOOLEAN, num_results \in 0..MaxYields,
          before \in {None, Some({}), Some({OldFile})} :
           /\ ~log_dir => before = None
           /\ unit = [kind |-> "cli", pc |-> "start",
                   search |-> search,            \* args.search
                   all |-> all, num_results |-> num_results,
                   log_dir |-> log_dir,          \* --log-dir is given
                   force |-> force,              \* --force
                   before |-> before,            \* the directory --log-dir names, before the run
                   dir |-> before,               \* the log directory
                   temp |-> FALSE,               \* temp_logdir is not None
                   err |-> NoExc,
                   tty |-> tty,                  \* old_stdout.isatty()
                   local |-> local,              \* the defaults are this machine's, not DEFAULT_LINUX
                   i |-> 0, results |-> 0, written |-> 0, success |-> FALSE,
                   cause |-> "none", status |-> 0, escaped |-> "none"]
    /\ SearchAndExecUnused

\* Lines 247-284: load_cache, and once more for DEFAULT_LINUX when the local
\* system is not supported.
CliLoadCache ==
    /\ unit.kind = "cli" /\ unit.pc = "start"
    /\ \E first, second \in {"ok", "PackageDatabaseNotFoundError"} :
           unit' = IF first = "ok" \/ (unit.local /\ second = "ok")
                   THEN [unit EXCEPT !.pc = "loaded"]
                   ELSE Return(unit, "PackageDatabaseNotFoundError", 1)
    /\ UNCHANGED <<exe, vars>>

\* Lines 299-317: --search looks the paths up in the cache.
CliLookup ==
    /\ unit.kind = "cli" /\ unit.pc = "loaded" /\ unit.search
    /\ \E found \in BOOLEAN :
           unit' = Return([unit EXCEPT !.success = found], "lookup", IF found THEN 0 ELSE 1)
    /\ UNCHANGED <<exe, vars>>

\* Lines 319-352: without --log-dir a temporary directory is made; a log
\* directory that exists is removed under --force and, if it was named by
\* --log-dir, ends the run otherwise. Then the generator object is made.
CliPrepare ==
    /\ unit.kind = "cli" /\ unit.pc = "loaded" /\ ~unit.search
    /\ LET u == IF unit.log_dir THEN unit
                ELSE [unit EXCEPT !.temp = TRUE, !.dir = Some({})]
       IN unit' = IF u.dir # None /\ u.force
                  THEN [u EXCEPT !.dir = None, !.pc = "created"]
                  ELSE IF u.dir # None /\ ~u.temp THEN Return(u, "log_dir_exists", 1)
                  ELSE [u EXCEPT !.pc = "created"]
    /\ UNCHANGED <<exe, vars>>

\* The body of the for loop, lines 354-380, for one SBOM.
CliBody(u) ==
    LET v == [u EXCEPT !.results = IF u.tty THEN @ + 1 ELSE @,
                       !.written = IF u.tty THEN @ ELSE @ + 1,
                       !.i = @ + 1]
    IN IF ~u.all /\ 0 < u.num_results /\ u.i = u.num_results - 1
       THEN [v EXCEPT !.pc = "finish", !.success = TRUE, !.cause = "enough"]
       ELSE [v EXCEPT !.pc = "suspended"]

\* The loop asks the generator for its next SBOM and gets one.
GenYield ==
    /\ unit.kind = "cli" /\ unit.pc \in {"created", "suspended"} /\ unit.i < MaxYields
    /\ unit' = CliBody(unit)
    /\ UNCHANGED <<exe, vars>>

\* The search ends after it has yielded: the generator returns, the loop ends.
GenReturn ==
    /\ unit.kind = "cli" /\ unit.pc = "suspended"
    /\ unit' = [unit EXCEPT !.pc = "finish", !.success = TRUE, !.cause = "completed"]
    /\ UNCHANGED <<exe, vars>>

\* find_feasible_sboms raises while the search is running.
GenRaise ==
    /\ unit.kind = "cli" /\ unit.pc \in {"created", "suspended"}
    /\ \E err \in CliErrors :
           unit' = IF Reraised(err.type) THEN Caught(unit, err)
                   ELSE [unit EXCEPT !.pc = "finish", !.success = TRUE, !.cause = err.type]
    /\ UNCHANGED <<exe, vars>>

\* An exception outside the try of _main: while the root step is made and
\* started, lines 264-266, before the search has begun.
GenStartFails ==
    /\ unit.kind = "cli" /\ unit.pc = "created"
    /\ \E exc \in {"DockerException", "Timeout", "KeyboardInterrupt"} :
           unit' = Left(unit, "start:" \o exc, Handle(exc))
    /\ UNCHANGED <<exe, vars>>

\* Lines 443-451: the results are written, the temporary log directory is
\* removed, which raises FileNotFoundError if it is not there, and main
\* returns 0.
CliFinish ==
    /\ unit.kind = "cli" /\ unit.pc = "finish"
    /\ LET u == [unit EXCEPT !.written = @ + unit.results]
       IN unit' = IF u.temp /\ u.dir = None
                  THEN Left(u, u.cause, [status |-> 0, escaped |-> "FileNotFoundError"])
                  ELSE IF u.temp THEN Return([u EXCEPT !.dir = None], u.cause, 0)
                  ELSE Return(u, u.cause, 0)
    /\ UNCHANGED <<exe, vars>>

CliNext ==
    \/ CliLoadCache
    \/ CliLookup
    \/ CliPrepare
    \/ GenYield
    \/ GenReturn
    \/ GenRaise
    \/ GenStartFails
    \/ CliFinish

CliSpec == CliInit /\ [][CliNext]_<<unit, exe, vars>>

\* ---------------------------------------------------------------- two threads on one Execution
\* The driver thread of find_feasible_sboms (dependencies.py 447-469) and the
\* refresh thread of the progress display (ContainerProgress.get_renderables,
\* containers.py 376-393) use the same Execution without a lock. Each thread
\* is a stack of positions in done, close, exit_code, output, logs and
\* Container.__exit__; one step is one read or write of a shared field or one
\* engine call, and the steps of the two threads interleave freely.
MaxRefreshes == 2
Threads == {"driver", "refresh"}

PosOf(u, t) == u.th[t].stk[Len(u.th[t].stk)]
ThreadGoto(u, t, pos) == [u EXCEPT !.th[t].stk[Len(u.th[t].stk)] = pos]
ThreadCall(u, t, callee, cont) ==
    [u EXCEPT !.th[t].stk = Append([@ EXCEPT ![Len(@)] = cont], callee)]
ThreadReturn(u, t, val) ==
    [u EXCEPT !.th[t].stk = Pop(@), !.th[t].rv = val]

\* An exception travelling up a thread's callers: done catches a NotFound
\* raised inside its try (lines 63-73), the driver's `with self:` leaves the
\* Container on the way out, nothing else catches.
RECURSIVE Unwind(_, _, _)
Unwind(u, t, exc) ==
    LET stk == u.th[t].stk
        top == stk[Len(stk)]
    IN IF top = "done_closing" /\ exc = "NotFound"
       THEN ThreadGoto(u, t, "done_nf")
       ELSE IF top \in {"d_branch", "d_loop", "d_out", "d_leave"}
       THEN [u EXCEPT !.th[t].stk = <<"d_end", "exit">>, !.th[t].exc = exc,
                      !.holders = @ - 1]
       ELSE IF top \in {"d_end", "r_loop"}
       THEN [u EXCEPT !.th[t].stk = <<"dead">>, !.th[t].exc = exc]
       ELSE Unwind([u EXCEPT !.th[t].stk = Pop(@)], t, exc)

ThreadRaise(u, t, exc) == Unwind([u EXCEPT !.th[t].stk = Pop(@)], t, exc)

\* Execution.close, lines 100-115.
CloseStep(u, t) ==
    LET pos == PosOf(u, t) IN
    IF pos = "close"
    THEN IF u.closed THEN ThreadReturn(u, t, u.th[t].rv)
         ELSE ThreadGoto(u, t, "close_set")
    ELSE IF pos = "close_set" THEN ThreadGoto([u EXCEPT !.closed = TRUE], t, "close_logs")
    ELSE IF pos = "close_logs"
    THEN IF u.engine = "removed" THEN ThreadRaise(u, t, "NotFound")
         ELSE ThreadGoto([u EXCEPT !.output = Some("out")], t, "close_code")
    ELSE IF pos = "close_code"
    THEN ThreadGoto(u, t, IF u.exitCode = None THEN "close_wait" ELSE "close_remove")
    ELSE IF pos = "close_wait"
    THEN IF u.engine = "removed" THEN ThreadRaise(u, t, "NotFound")
         ELSE ThreadGoto([u EXCEPT !.exitCode = Some(u.status)], t, "close_remove")
    ELSE IF pos = "close_remove"
    THEN ThreadCall([u EXCEPT !.engine = "removed",
                              !.removes = IF u.engine = "removed" THEN @ ELSE @ + 1],
                    t, "exit", "close_left")
    ELSE ThreadReturn([u EXCEPT !.released = @ + 1], t, u.th[t].rv)

\* Execution.done, lines 58-74.
DoneStep(u, t) ==
    LET pos == PosOf(u, t) IN
    IF pos = "done"
    THEN IF u.closed THEN ThreadReturn(u, t, TRUE) ELSE ThreadGoto(u, t, "done_reload")
    ELSE IF pos = "done_reload"
    THEN IF u.engine = "removed" THEN ThreadGoto(u, t, "done_nf")
         ELSE IF u.engine = "exited"
         THEN ThreadCall([u EXCEPT !.th[t].seen = TRUE], t, "close", "done_closing")
         ELSE ThreadReturn(u, t, FALSE)
    ELSE IF pos = "done_nf" THEN ThreadCall(u, t, "close", "done_closed")
    ELSE ThreadReturn(u, t, TRUE)

\* Execution.exit_code, lines 76-88: a cached property.
ExitCodeStep(u, t) ==
    LET pos == PosOf(u, t) IN
    IF pos = "exit_code"
    THEN IF u.cached # None THEN ThreadReturn(u, t, u.th[t].rv)
         ELSE IF u.exitCode = None THEN ThreadGoto(u, t, "exit_code_wait")
         ELSE ThreadGoto(u, t, "exit_code_closed")
    ELSE IF pos = "exit_code_wait"
    THEN ThreadCall(IF u.engine = "removed" THEN u
                    ELSE [u EXCEPT !.exitCode = Some(u.status)],
                    t, "close", "exit_code_closed")
    ELSE ThreadReturn([u EXCEPT !.cached = Some(u.exitCode)], t, u.th[t].rv)

\* Execution.output, lines 90-98.
OutputStep(u, t) ==
    LET pos == PosOf(u, t) IN
    IF pos = "output" THEN ThreadCall(u, t, "exit_code", "output_test")
    ELSE IF pos = "output_test"
    THEN IF u.output = None THEN ThreadCall(u, t, "close", "output_closed")
         ELSE ThreadReturn(u, t, u.th[t].rv)
    ELSE ThreadReturn(u, t, u.th[t].rv)

\* Execution.logs, lines 117-127.
LogsStep(u, t) ==
    LET pos == PosOf(u, t) IN
    IF pos = "logs" THEN ThreadCall(u, t, "done", "logs_test")
    ELSE IF pos = "logs_test"
    THEN IF u.th[t].rv THEN ThreadCall(u, t, "output", "logs_read")
         ELSE IF u.engine = "removed" THEN ThreadRaise(u, t, "NotFound")
         ELSE ThreadReturn(u, t, u.th[t].rv)
    ELSE ThreadReturn(u, t, u.th[t].rv)

\* Container.__exit__ and stop, lines 312-323 and 335-339: `_entries -= 1`
\* reads the count, then writes it.
ContainerExitStep(u, t) ==
    LET pos == PosOf(u, t) IN
    IF pos = "exit" THEN ThreadGoto([u EXCEPT !.th[t].tmp = u.entries], t, "exit_write")
    ELSE LET n == u.th[t].tmp - 1
             u1 == [u EXCEPT !.entries = n]
         IN IF n < 0 THEN ThreadRaise(u1, t, "AssertionError")
            ELSE IF n # 0 THEN ThreadReturn(u1, t, u.th[t].rv)
            ELSE IF ~u.image THEN ThreadRaise(u1, t, "ValueError")
            ELSE ThreadReturn([u1 EXCEPT !.image = FALSE], t, u.th[t].rv)

\* find_feasible_sboms, lines 447-469 and the end of its `with self:`.
DriverStep(u) ==
    LET t == "driver"
        pos == PosOf(u, t)
    IN IF pos = "d_loop" THEN ThreadCall(u, t, "done", "d_branch")
       ELSE IF pos = "d_branch"
       THEN IF u.th[t].rv THEN ThreadCall(u, t, "exit_code", "d_out")
            ELSE ThreadCall(u, t, "logs", "d_loop")
       ELSE IF pos = "d_out" THEN ThreadCall(u, t, "output", "d_leave")
       ELSE ThreadCall([u EXCEPT !.holders = @ - 1], t, "exit", "d_end")

\* get_renderables, lines 376-393, called by the display's refresh thread.
RefreshStep(u) ==
    ThreadCall([u EXCEPT !.refreshes = @ + 1], "refresh", "logs", "r_loop")

\* The driver has run the command from inside its `with self:` (run has
\* entered the Container once more), possibly under an outer `with` of _main.
RaceInit ==
    /\ \E outer \in {0, 1}, status \in {0, 1} :
           unit = [kind      |-> "race",
                   engine    |-> "running",
                   status    |-> status,
                   closed    |-> FALSE,
                   output    |-> None,
                   exitCode  |-> None,
                   cached    |-> None,
                   entries   |-> outer + 2,
                   holders   |-> outer + 1,
                   image     |-> TRUE,
                   removes   |-> 0,
                   released  |-> 0,
                   refreshes |-> 0,
                   th        |-> [t \in Threads |->
                                    [stk  |-> IF t = "driver" THEN <<"d_loop">>
                                              ELSE <<"r_loop">>,
                                     rv   |-> FALSE,
                                     tmp  |-> 0,
                                     seen |-> FALSE,
                                     exc  |-> "none"]]]
    /\ SearchAndExecUnused

ThreadAt(t, positions) == unit.kind = "race" /\ PosOf(unit, t) \in positions

\* wait() returns only once the command has exited.
Waiting(t) == PosOf(unit, t) \in {"close_wait", "exit_code_wait"} /\ unit.engine = "running"

RaceEngineExit ==
    /\ unit.kind = "race" /\ unit.engine = "running"
    /\ unit' = [unit EXCEPT !.engine = "exited"]
    /\ UNCHANGED <<exe, vars>>

RaceDone(t) ==
    /\ ThreadAt(t, {"done", "done_reload", "done_closing", "done_nf", "done_closed"})
    /\ unit' = DoneStep(unit, t)
    /\ UNCHANGED <<exe, vars>>

RaceClose(t) ==
    /\ ThreadAt(t, {"close", "close_set", "close_logs", "close_code", "close_wait",
              "close_remove", "close_left"})
    /\ ~Waiting(t)
    /\ unit' = CloseStep(unit, t)
    /\ UNCHANGED <<exe, vars>>

RaceExitCode(t) ==
    /\ ThreadAt(t, {"exit_code", "exit_code_wait", "exit_code_closed"})
    /\ ~Waiting(t)
    /\ unit' = ExitCodeStep(unit, t)
    /\ UNCHANGED <<exe, vars>>

RaceOutput(t) ==
    /\ ThreadAt(t, {"output", "output_test", "output_closed"})
    /\ unit' = OutputStep(unit, t)
    /\ UNCHANGED <<exe, vars>>

RaceLogs(t) ==
    /\ ThreadAt(t, {"logs", "logs_test", "logs_read"})
    /\ unit' = LogsStep(unit, t)
    /\ UNCHANGED <<exe, vars>>

RaceContainerExit(t) ==
    /\ ThreadAt(t, {"exit", "exit_write"})
    /\ unit' = ContainerExitStep(unit, t)
    /\ UNCHANGED <<exe, vars>>

RaceDriver ==
    /\ ThreadAt("driver", {"d_loop", "d_branch", "d_out", "d_leave"})
    /\ unit' = DriverStep(unit)
    /\ UNCHANGED <<exe, vars>>

RaceRefresh ==
    /\ ThreadAt("refresh", {"r_loop"})
    /\ unit.refreshes < MaxRefreshes
    /\ unit' = RefreshStep(unit)
    /\ UNCHANGED <<exe, vars>>

RaceNext ==
    \/ RaceEngineExit
    \/ RaceDriver
    \/ RaceRefresh
    \/ \E t \in Threads : RaceDone(t)
    \/ \E t \in Threads : RaceClose(t)
    \/ \E t \in Threads : RaceExitCode(t)
    \/ \E t \in Threads : RaceOutput(t)
    \/ \E t \in Threads : RaceLogs(t)
    \/ \E t \in Threads : RaceContainerExit(t)

RaceSpec == RaceInit /\ [][RaceNext]_<<unit, exe, vars>>

\* ---------------------------------------------------------------- properties

\* The candidate children of one step, in the order they were constructed.
Siblings(a, b) ==
    /\ a < b
    /\ steps[a].parent # 0
    /\ steps[a].parent = steps[b].parent
    /\ steps[a].pre # {} /\ steps[b].pre # {}

\* The positions in step s's missing_files that the cache maps to package p.
Hits(s, p) == {i \in 1..Len(steps[s].missing) : p \in env.cache[steps[s].missing[i]]}

PackageOf(s) == CHOOSE p \in steps[s].pre : TRUE

\* C1: in a single-command search every yielded SBOM is, as a set, the union
\* of the preinstall sets along the parent chain of the step that yielded it,
\* and that step's run exited with code 0.
C1_SingleYieldIsChainUnion ==
    env.mode = "single" =>
        \A i \in 1..Len(results) :
            /\ DependencySet(results[i].sbom) = Installed(steps, results[i].step)
            /\ steps[results[i].step].retval = 0

C1_Witness ==
    /\ env.mode = "single"
    /\ Len(results) >= 1
    /\ Cardinality(DependencySet(results[1].sbom)) >= 2

\* C2: every SBOM yielded by multi_step equals the parent-chain SBOM of the
\* final-stage step that produced it, so it holds the packages installed for
\* the earlier commands too.
C2_MultiYieldIsFullAnswer ==
    env.mode = "multi" =>
        \A i \in 1..Len(results) :
            DependencySet(results[i].sbom) = Installed(steps, results[i].step)

\* C3: with two commands, where the first exits zero only once a package p
\* that the cache maps from one of its missing files is installed, and the
\* second, on top of that, only once a further package q that the cache maps
\* from one of its missing files is installed, a finished multi-step search
\* has yielded at least one SBOM.
C3_TwoCommandsYield ==
    (/\ env.mode = "multi"
     /\ env.ncmds = 2
     /\ ctl.op = "done"
     /\ \E p, q \in Packages :
            /\ p # q
            /\ env.needs[1] = {p}
            /\ env.needs[2] = {q}
            /\ \E f \in Files : p \in env.cache[f]
            /\ \E g \in Files : q \in env.cache[g] /\ ~FileExists(g, {p}))
    => Len(results) >= 1

\* C4: once an SBOM has joined the infeasible set, no step whose SBOM is the
\* same set of packages is opened afterwards.
C4_InfeasibleNeverOpened ==
    \A i, j \in 1..Len(events) :
        (i < j /\ events[i].kind = "infeasible" /\ events[j].kind = "open")
            => events[j].pkgs # events[i].pkgs

C4_Witness ==
    \E i, j \in 1..Len(events) :
        /\ i < j
        /\ events[i].kind = "infeasible"
        /\ events[j].kind = "skip"
        /\ events[j].pkgs = events[i].pkgs

\* C5: once an SBOM F has been recorded as feasible, no step whose SBOM is a
\* strict superset of F is opened afterwards.
C5_NoSupersetOfFeasibleOpened ==
    \A i, j \in 1..Len(events) :
        (i < j /\ events[i].kind = "feasible" /\ events[j].kind = "open")
            => ~(events[i].pkgs \subseteq events[j].pkgs /\ events[i].pkgs # events[j].pkgs)

\* C6: when the root step's run exits with code 0, the root yields once (the
\* empty SBOM) and no candidate child of the root is ever constructed; a
\* search for that one command ends without error with exactly that one
\* result and no step but the root.
C6_ZeroExitRoot ==
    (steps # <<>> /\ steps[1].retval = 0) =>
        /\ \A t \in 1..Len(steps) : ~(steps[t].parent = 1 /\ steps[t].pre # {})
        /\ Cardinality({i \in 1..Len(events) :
                            events[i].kind = "feasible" /\ events[i].step = 1}) <= 1
        /\ \A i \in 1..Len(events) :
                (events[i].kind = "feasible" /\ events[i].step = 1) => events[i].pkgs = {}
        /\ (env.ncmds = 1 /\ ctl.op = "done") =>
                /\ outcome = "ok"
                /\ Len(results) = 1
                /\ results[1].sbom = SBOM(<<>>)
                /\ Len(steps) = 1

C6_Witness ==
    /\ ctl.op = "done"
    /\ env.ncmds = 1
    /\ steps[1].retval = 0
    /\ steps[1].missing # <<>>
    /\ \E f \in Files : env.cache[f] # {}
    /\ Len(results) = 1

\* C7, as claimed: the candidate children of a step are constructed in the
\* order (frequency descending, first index descending, name ascending).
C7_RankedByFirstIndexNameAscending ==
    \A a, b \in 1..Len(steps) :
        Siblings(a, b) =>
            LET s == steps[a].parent
                x == PackageOf(a)
                y == PackageOf(b)
                fx == Cardinality(Hits(s, x))
                fy == Cardinality(Hits(s, y))
            IN \/ fx > fy
               \/ fx = fy /\ Min(Hits(s, x)) > Min(Hits(s, y))
               \/ fx = fy /\ Min(Hits(s, x)) = Min(Hits(s, y)) /\ x < y

\* C7, amended: the candidate children of a step are constructed in the
\* order (frequency descending, last index descending, name descending),
\* where the last index is the index in missing_files of the last entry that
\* the cache maps to the candidate.
C7_RankedByLastIndexNameDescending ==
    \A a, b \in 1..Len(steps) :
        Siblings(a, b) =>
            LET s == steps[a].parent
                x == PackageOf(a)
                y == PackageOf(b)
                fx == Cardinality(Hits(s, x))
                fy == Cardinality(Hits(s, y))
            IN \/ fx > fy
               \/ fx = fy /\ Max(Hits(s, x)) > Max(Hits(s, y))
               \/ fx = fy /\ Max(Hits(s, x)) = Max(Hits(s, y)) /\ x > y

C7_Witness ==
    \E a, b \in 1..Len(steps) :
        /\ Siblings(a, b)
        /\ LET s == steps[a].parent
               x == PackageOf(a)
               y == PackageOf(b)
           IN /\ Cardinality(Hits(s, x)) = Cardinality(Hits(s, y))
              /\ Max(Hits(s, x)) > Max(Hits(s, y))
              /\ Min(Hits(s, x)) < Min(Hits(s, y))

\* C8: a step whose run exits nonzero raises NonZeroExit if its missing_files
\* is empty; otherwise, if its parent is a step with the same exit code and
\* the same output, it raises IrrelevantPackageInstall; either way it has no
\* child step.
C8_NoProgressGuard ==
    \A s \in 1..Len(steps) :
        LET me == steps[s]
            pending == /\ stack # <<>>
                       /\ stack[Top].kind = "FFS"
                       /\ stack[Top].pc = "decide"
                       /\ stack[Top].step = s
            raised(type) == \E i \in 1..Len(events) :
                                events[i].kind = type /\ events[i].step = s
            childless == \A t \in 1..Len(steps) : steps[t].parent # s
        IN (me.retval \notin {-1, 0} /\ ~pending) =>
               IF me.missing = <<>>
               THEN raised("NonZeroExit") /\ childless
               ELSE (/\ me.parent # 0
                     /\ steps[me.parent].retval = me.retval
                     /\ steps[me.parent].out = me.out)
                    => raised("IrrelevantPackageInstall") /\ childless

C8_Witness ==
    /\ \E i \in 1..Len(events) : events[i].kind = "NonZeroExit"
    /\ \E i \in 1..Len(events) : events[i].kind = "IrrelevantPackageInstall"

\* C9, as claimed: if the root exits nonzero and the cache maps none of its
\* missing files to a package, the search ends with a PackageResolutionError
\* whose partial SBOM is empty and whose output is the root's, and no step but
\* the root was ever constructed.
C9_RootWithoutProviders ==
    (/\ ctl.op = "done"
     /\ steps[1].retval # 0
     /\ \A i \in 1..Len(steps[1].missing) : env.cache[steps[1].missing[i]] = {})
    => /\ outcome = "PackageResolutionError"
       /\ error.partial = SBOM(<<>>)
       /\ error.out = steps[1].out
       /\ Len(steps) = 1

\* C9, amended: the same, for a root whose missing_files is not empty.
C9_RootWithMissingFilesWithoutProviders ==
    (/\ ctl.op = "done"
     /\ steps[1].retval # 0
     /\ steps[1].missing # <<>>
     /\ \A i \in 1..Len(steps[1].missing) : env.cache[steps[1].missing[i]] = {})
    => /\ outcome = "PackageResolutionError"
       /\ error.partial = SBOM(<<>>)
       /\ error.out = steps[1].out
       /\ Len(steps) = 1

C9_Witness ==
    /\ ctl.op = "done"
    /\ steps[1].retval # 0
    /\ steps[1].missing # <<>>
    /\ \A i \in 1..Len(steps[1].missing) : env.cache[steps[1].missing[i]] = {}
    /\ outcome = "PackageResolutionError"

\* C10: when a NonZeroExit, IrrelevantPackageInstall or PackageResolutionError
\* leaves the search of a child, the parent step catches it: the child is
\* closed (no entry held, no snapshot), and the parent goes on with its next
\* candidate in the same ranking, keeping what it has yielded so far.
C10_ChildErrorCaught ==
    [][(/\ ctl.op = "exc"
        /\ ctl.at >= 1
        /\ stack[ctl.at].kind = "FFS"
        /\ ctl.exc.type \in {"NonZeroExit", "IrrelevantPackageInstall",
                             "PackageResolutionError"})
       => /\ steps'[stack[ctl.at].child].entries = 0
          /\ ~steps'[stack[ctl.at].child].image
          /\ ctl'.op = "call"
          /\ Len(stack') = ctl.at
          /\ stack'[ctl.at].pc = "loop"
          /\ stack'[ctl.at].cands = stack[ctl.at].cands
          /\ stack'[ctl.at].ci = stack[ctl.at].ci + 1
          /\ stack'[ctl.at].yielded = stack[ctl.at].yielded]_vars


\* A step has handled every candidate and none of its children yielded.
LoopEndedWithoutYield ==
    /\ ctl.op = "call"
    /\ stack # <<>>
    /\ stack[Top].kind = "FFS"
    /\ stack[Top].pc = "loop"
    /\ stack[Top].ci > Len(stack[Top].cands)
    /\ ~stack[Top].yielded

\* C11, as claimed: a step that had candidates none of which yielded raises
\* PackageResolutionError with the best-partial step's SBOM; at level 0 the
\* error carries the best-partial step's output, at a deeper level the
\* step's own SBOM joins the infeasible set.
C11_NoYieldFallback ==
    [][LoopEndedWithoutYield =>
        LET s == stack[Top].step
        IN /\ ctl'.op = "exc"
           /\ ctl'.exc.type = "PackageResolutionError"
           /\ ctl'.exc.partial = StepSbom(steps, best)
           /\ IF steps[s].level = 0
              THEN ctl'.exc.out = steps[best].out
              ELSE DependencySet(StepSbom(steps, s)) \in infeasible']_vars

\* C11, amended: the same, where at a deeper level the step's own SBOM joins
\* the infeasible set unless it is empty (the step that starts a later
\* command on top of a root that needed no package), in which case the
\* infeasible set is left as it was.
C11_NoYieldFallbackNonEmpty ==
    [][LoopEndedWithoutYield =>
        LET s == stack[Top].step
        IN /\ ctl'.op = "exc"
           /\ ctl'.exc.type = "PackageResolutionError"
           /\ ctl'.exc.partial = StepSbom(steps, best)
           /\ IF steps[s].level = 0
              THEN ctl'.exc.out = steps[best].out
              ELSE IF StepSbom(steps, s) # SBOM(<<>>)
              THEN DependencySet(StepSbom(steps, s)) \in infeasible'
              ELSE infeasible' = infeasible]_vars

C11_Witness ==
    /\ ctl.op = "done"
    /\ outcome = "PackageResolutionError"
    /\ steps[1].retval # 0
    /\ error.partial # SBOM(<<>>)
    /\ \E i \in 1..Len(events), t \in 1..Len(steps) :
           /\ events[i].kind = "infeasible"
           /\ steps[t].parent = events[i].step
           /\ steps[t].pre # {}

\* C12: a preinstall failure for lack of disk space is fatal wherever it
\* happens: no step is opened after it and the search ends with a
\* PreinstallError at the caller; any other preinstall failure never ends the
\* search with a PreinstallError.
C12_DiskExhaustionIsFatal ==
    /\ \A i \in 1..Len(events) :
           events[i].kind = "PreinstallError" =>
               /\ \A j \in 1..Len(events) : j > i => events[j].kind # "open"
               /\ ctl.op = "done" => outcome = "PreinstallError"
    /\ env.badkind = "fail" =>
           /\ outcome # "PreinstallError"
           /\ \A i \in 1..Len(events) : events[i].kind # "PreinstallError"

\* C13: the best-partial pointer never refers to a step that was only
\* constructed (pruned before opening, or whose preinstall failed); when the
\* search has ended it refers to a step that completed a run, of maximal
\* level among the steps that completed a run and, among those of that
\* level, with a longest output.
C13_BestPartialHasRun ==
    /\ \A i \in 1..Len(events) :
           events[i].kind \in {"skip", "preinstall"} => best # events[i].step
    /\ (ctl.op = "done" /\ steps # <<>>) =>
           LET ran == {s \in 1..Len(steps) : steps[s].retval # -1}
           IN /\ best \in ran
              /\ \A s \in ran :
                     /\ steps[s].level <= steps[best].level
                     /\ steps[s].level = steps[best].level
                            => Len(steps[s].out) <= Len(steps[best].out)

\* C14: a step owns a committed snapshot exactly when its entry count is at
\* least 1: the first entry commits it, nested entries commit nothing more,
\* and the exit that brings the count to 0 removes it.
C14_SnapshotIffEntered ==
    \A s \in 1..Len(steps) :
        /\ steps[s].entries >= 0
        /\ steps[s].image <=> steps[s].entries >= 1
        /\ steps[s].commits - steps[s].removes = (IF steps[s].image THEN 1 ELSE 0)

C14_Witness ==
    \E s, t \in 1..Len(steps) :
        /\ steps[s].entries >= 2 /\ steps[s].commits = 1
        /\ steps[t].commits = 1 /\ steps[t].removes = 1 /\ steps[t].entries = 0

\* The snapshots removed so far by the children of step p among steps 1..n.
RECURSIVE ChildStops(_, _)
ChildStops(p, n) ==
    IF n = 0 THEN 0
    ELSE ChildStops(p, n - 1) + (IF steps[n].parent = p THEN steps[n].removes ELSE 0)

\* C15: while a child step is open its parent is open (entry count at least
\* 1, snapshot present); each stop of a child gives back exactly one entry of
\* the parent, and the entries the children hold or have given back never
\* eat into the parent's own entries, so a parent inside one of its own
\* entries keeps its snapshot.
C15_ChildKeepsParentOpen ==
    \A s \in 1..Len(steps) :
        /\ (steps[s].parent # 0 /\ steps[s].image) =>
               /\ steps[steps[s].parent].entries >= 1
               /\ steps[steps[s].parent].image
        /\ steps[s].released = ChildStops(s, Len(steps))
        /\ steps[s].taken >= steps[s].released
        /\ steps[s].entries >= steps[s].taken - steps[s].released
        /\ steps[s].entries >= 1 => steps[s].image

C15_Witness ==
    \E p, c \in 1..Len(steps) :
        /\ steps[c].parent = p
        /\ steps[c].removes = 1
        /\ steps[p].released >= 1
        /\ steps[p].image
        /\ steps[p].entries > steps[p].taken - steps[p].released

\* C16: when the search has ended (generator exhausted or an error raised
\* to the caller) every opened step has been closed, children before their
\* parents: every entry count is 0, no snapshot remains, and a step never keeps
\* its snapshot after its parent's was removed.
C16_AllClosedAtEnd ==
    /\ \A s \in 1..Len(steps) :
           (steps[s].parent # 0 /\ steps[s].image) => steps[steps[s].parent].image
    /\ ctl.op = "done" =>
           \A s \in 1..Len(steps) : steps[s].entries = 0 /\ ~steps[s].image

\* The positions in the event log of the events of a kind about a step.
At(kind, s) == {i \in 1..Len(events) : events[i].kind = kind /\ events[i].step = s}

\* Every position of A lies before every position of B.
Before(A, B) == \A i \in A, j \in B : i < j

\* C17: a parent's open precedes each of its children's opens; a step's run
\* comes after its own open and before the open of any of its children, and a
\* child is opened only under a parent that has run; within a step the log is
\* parsed before the paths are probed, and the probe precedes the ranking of
\* candidates, which happens only after a probe.
C17_StepEventOrder ==
    \A s \in 1..Len(steps) :
        /\ At("run", s) # {} => At("open", s) # {}
        /\ Before(At("open", s), At("run", s))
        /\ Before(At("run", s), At("parse", s))
        /\ Before(At("parse", s), At("probe", s))
        /\ Before(At("probe", s), At("rank", s))
        /\ At("rank", s) # {} => At("probe", s) # {} /\ At("parse", s) # {}
        /\ \A c \in 1..Len(steps) :
               (steps[c].parent = s /\ At("open", c) # {}) =>
                   /\ At("open", s) # {} /\ At("run", s) # {}
                   /\ Before(At("open", s), At("open", c))
                   /\ Before(At("run", s), At("open", c))

C17_Witness ==
    \E s, c, g \in 1..Len(steps) :
        /\ steps[c].parent = s /\ steps[g].parent = c
        /\ At("rank", s) # {} /\ At("rank", c) # {}
        /\ At("open", g) # {} /\ At("run", g) # {}

\* C18: close is idempotent. However often close is reached, directly or
\* through done, exit_code, output or logs, the engine container is removed
\* once and the owning Container's entry is released once, both exactly when
\* the execution is closed, and done is true from then on.
C18_CloseIdempotent ==
    /\ exe.removed = (IF exe.closed THEN 1 ELSE 0)
    /\ exe.released = (IF exe.closed THEN 1 ELSE 0)
    /\ exe.entries = exe.caller + (IF exe.phase = "live" /\ ~exe.closed THEN 1 ELSE 0)
    /\ exe.closes >= 1 => exe.closed
    /\ exe.closed => exe.engine = "removed" /\ Done(exe) = [e |-> exe, val |-> TRUE]
    /\ (exe.ret.op = "done" /\ exe.ret.wasClosed) => exe.ret.val = TRUE

C18_Witness ==
    /\ exe.closes >= 2
    /\ exe.removed = 1
    /\ exe.ret.op = "done" /\ exe.ret.wasClosed

\* C19: logs(scrollback=N) returns empty bytes once the execution has been
\* closed.
C19_LogsEmptyAfterClose ==
    (exe.ret.op = "logs" /\ exe.ret.wasClosed) => exe.ret.val = <<>>

\* C19, amended: once the execution has been closed, logs(scrollback=N)
\* returns the output captured at the close: its last N bytes when
\* 0 < N < its length, all of it otherwise (also for N = 0), and leaves the
\* execution as it is.
C19_LogsAfterCloseIsCapturedOutput ==
    (exe.ret.op = "logs" /\ exe.ret.wasClosed) =>
        LET o == exe.output[1]
            n == exe.ret.n
        IN exe.ret.val = (IF 0 < n /\ n < Len(o) THEN SubSeq(o, Len(o) - n + 1, Len(o))
                          ELSE o)

C19_Witness ==
    /\ exe.ret.op = "logs" /\ exe.ret.wasClosed
    /\ exe.ret.n = 1
    /\ Len(exe.output[1]) = MaxOutput
    /\ Len(exe.ret.val) = 1

InvocationsWith(q) == {k \in 1..Len(unit.calls) : q \in Range(unit.calls[k])}

\* C21: with n distinct paths files_exist makes exactly ceil(n/255) helper
\* invocations, each with at most 255 paths, every path in exactly one of
\* them, and returns a map with exactly n entries; with no path it returns an
\* empty map without invoking the helper or opening the snapshot.
C21_BatchesAndEntries ==
    LET n == Cardinality(unit.paths) IN
    /\ \A k \in 1..Len(unit.calls) : Len(unit.calls[k]) <= BatchSize
    /\ \A q \in unit.paths : Cardinality(InvocationsWith(q)) <= 1
    /\ unit.pc = "returned" =>
           /\ Len(unit.calls) = Ceil(n, BatchSize)
           /\ \A q \in unit.paths : Cardinality(InvocationsWith(q)) = 1
           /\ Cardinality(unit.keys) = n
           /\ n = 0 => unit.calls = <<>> /\ unit.opens = 0

\* C22: the returned map has exactly the given paths as keys, a path maps to
\* False exactly when the helper printed it, and when a helper invocation
\* exits nonzero files_exist raises instead of returning.
C22_MapOfGivenPaths ==
    /\ unit.pc = "returned" =>
           /\ unit.keys = unit.paths
           /\ \A q \in unit.paths : q \in unit.false <=> q \in unit.missing
           /\ unit.failAt \notin 1..Len(unit.batches)
    /\ unit.pc = "raised" => unit.failAt = Len(unit.calls)

\* The packages the enumeration lists for a filename, over all its entries.
ListedFor(E, filename) ==
    UNION {E[i].pkgs : i \in {j \in 1..Len(E) : E[j].filename = filename}}

\* C23: in a cache built from an enumeration E the store's lookup of p is the
\* union of the package sets of all entries of E with filename p, and the
\* empty set for every p that does not occur in E.
C23_LookupIsUnionOverEnumeration ==
    unit.conn # None =>
        \A q \in Queries : PackagesProviding(unit.conn[1], q) = ListedFor(unit.E, q)

C23_Witness ==
    /\ unit.conn # None /\ unit.builds >= 1
    /\ \E i, j \in 1..Len(unit.E) :
           /\ i # j /\ unit.E[i].filename = unit.E[j].filename
           /\ unit.E[i].pkgs # {} /\ unit.E[j].pkgs # {} /\ unit.E[i].pkgs # unit.E[j].pkgs
           /\ unit.ret.op = "lookup" /\ unit.ret.arg = unit.E[i].filename
           /\ unit.ret.val = unit.E[i].pkgs \cup unit.E[j].pkgs

C25_BuildIsAtomic ==
    [][/\ unit'.disk # None => unit'.disk = Some(RowsOf(unit'.E))
       /\ (unit'.ret.op \in {"open", "rebuild"} /\ unit'.ret.val) => unit'.disk = None
       /\ unit'.ret.op = "delete" => unit'.disk = None
       /\ (unit.disk = None /\ unit'.ret.op = "open") =>
              /\ unit'.builds = unit.builds + 1
              /\ ~unit'.ret.val => unit'.conn = Some(RowsOf(unit.E))]_unit

C25_Witness ==
    /\ unit.failed = 1 /\ unit.builds = 2
    /\ unit.ret.op = "open" /\ ~unit.ret.val
    /\ unit.disk = Some(RowsOf(unit.E)) /\ Len(unit.disk[1]) = MaxEntries * NumPackages

\* C26: iterating the cache yields each stored filename exactly once, each
\* with the complete set of packages stored for it.
C26_IterationIsComplete ==
    unit.ret.op = "iterate" =>
        LET rows == unit.conn[1]
            got == unit.ret.val
        IN /\ {got[i].filename : i \in 1..Len(got)} = FilenamesOf(rows)
           /\ Len(got) = Cardinality(FilenamesOf(rows))
           /\ \A i \in 1..Len(got) :
                  got[i].pkgs = PackagesProviding(rows, got[i].filename)

\* C27: SBOMs are equal, and hash equally, by package set: two SBOMs whose
\* tuples hold the same packages, in any order, compare equal and have the
\* same hash, and SBOMs with different sets compare unequal; x + y is an SBOM
\* whose set is the union of both sets and leaves x and y as they were;
\* x.issuperset(y) holds iff the set of y is a subset of the set of x.
C27_SbomAlgebra ==
    unit.kind = "sbom" =>
        LET r == unit.ret
            same == Range(r.x) = Range(r.y)
        IN /\ r.op = "eq" => (r.val <=> same)
           /\ (r.op = "hash" /\ same) => r.val[1] = r.val[2]
           /\ r.op = "add" => /\ Range(r.val) = Range(r.x) \cup Range(r.y)
                              /\ unit.x = r.x /\ unit.y = r.y
           /\ r.op = "issuperset" => (r.val <=> Range(r.y) \subseteq Range(r.x))

C27_Witness ==
    /\ unit.kind = "sbom"
    /\ unit.x = <<1, 2>> /\ unit.y = <<2, 1>>
    /\ unit.ret.op = "eq" /\ unit.ret.val

\* The lines the claim of C28 is about: an exit line and a signal line, each
\* with or without a leading pid.
IsExitLine(line) == \E pid \in Pids, body \in ExitBodies : line = pid \o body
IsSignalLine(line) == \E pid \in Pids, body \in SignalBodies : line = pid \o body

\* C28: parse_strace_log_line returns the null marker (no syscall, no
\* arguments, return value 1) and raises nothing for every exit line and
\* every signal line, SIGCHLD or any other signal, with or without a pid.
C28_ExitAndSignalLinesAreNull ==
    (unit.kind = "strace" /\ unit.pc = "parsed"
         /\ (IsExitLine(unit.line) \/ IsSignalLine(unit.line)))
        => unit.result = NullMarker

\* The quoted strings of a line, read from left to right. A character of a
\* quoted string is escaped when an odd number of backslashes stands right
\* before it; the string that opens at i closes at the first unescaped
\* occurrence of its quotation mark.
RECURSIVE BackslashesBefore(_, _, _)
BackslashesBefore(line, lo, k) ==
    IF k - 1 >= lo /\ line[k - 1] = "\\" THEN 1 + BackslashesBefore(line, lo, k - 1) ELSE 0

IsEscaped(line, i, k) == BackslashesBefore(line, i + 1, k) % 2 = 1

Closings(line, i) ==
    {j \in (i + 1)..Len(line) : line[j] = line[i] /\ ~IsEscaped(line, i, j)}

\* The decoded text between the quotation marks at i and j.
RECURSIVE Decoded(_, _, _, _)
Decoded(line, i, j, k) ==
    IF k >= j THEN <<>>
    ELSE IF IsEscaped(line, i, k)
         THEN <<IF line[k] \in EscapeLetters THEN Escapes(line[k]) ELSE line[k]>>
                  \o Decoded(line, i, j, k + 1)
    ELSE IF line[k] = "\\" THEN Decoded(line, i, j, k + 1)
    ELSE <<line[k]>> \o Decoded(line, i, j, k + 1)

RECURSIVE QuotedStrings(_, _)
QuotedStrings(line, i) ==
    IF i > Len(line) THEN <<>>
    ELSE IF line[i] \in QuoteChars /\ Closings(line, i) # {}
         THEN LET j == Min(Closings(line, i))
              IN <<Decoded(line, i, j, i + 1)>> \o QuotedStrings(line, j + 1)
    ELSE QuotedStrings(line, i + 1)

\* C29 as stated: the strings the lazy path extractor yields for a line are
\* the decoded quoted strings of the line that start with "/", and no other
\* quoted string is yielded.
C29_YieldsOnlySlashPaths ==
    (unit.kind = "paths" /\ unit.pc = "done") =>
        Range(unit.yielded) =
            {v \in Range(QuotedStrings(unit.line, 1)) : StartsWithSlash(v)}

\* C29, amended: the extractor yields the decoded value of every quoted
\* string of the line, in order and whatever its first character, skipping
\* what it cannot parse; the step keeps those that start with "/", so the
\* paths it collects are the decoded quoted strings that start with "/".
C29_StepCollectsSlashPaths ==
    (unit.kind = "paths" /\ unit.pc = "done") =>
        /\ unit.yielded = QuotedStrings(unit.line, 1)
        /\ unit.accessed_files =
               {v \in Range(QuotedStrings(unit.line, 1)) : StartsWithSlash(v)}

\* The line  '"/n"  : an unterminated quotation that is skipped, and after
\* it the quoted path /n, which the step collects.
C29_Witness ==
    /\ unit.kind = "paths" /\ unit.pc = "done"
    /\ unit.line = <<"'", "\"", "/", "n", "\"">>
    /\ unit.yielded = <<(<<"/", "n">>)>>
    /\ unit.accessed_files = {<<"/", "n">>}

\* The failures the claim of C30 names, as the event that ended the run:
\* the search exhausted, the engine not reachable, the package database not
\* found, a preinstall error, and an interrupt while the search was running.
UserVisibleFailures ==
    {"PackageResolutionError", "DockerException", "PackageDatabaseNotFoundError",
     "PreinstallError", "KeyboardInterrupt"}

\* C30: main returns 1 for every user-visible failure, and returns 0 only
\* when the search completed successfully.
C30_FailuresExitWithOne ==
    (unit.kind = "cli" /\ unit.pc = "exited" /\ ~unit.search /\ unit.escaped = "none") =>
        /\ unit.cause \in UserVisibleFailures => unit.status = 1
        /\ unit.status = 0 => unit.cause \in {"completed", "enough"}

\* C31: when --log-dir names a directory that exists and --force is given,
\* the directory's previous contents are gone and the directory itself exists
\* after main has returned.
C31_ForcedLogDirIsEmptiedAndKept ==
    (unit.kind = "cli" /\ unit.pc = "exited" /\ unit.escaped = "none"
         /\ ~unit.search /\ unit.log_dir /\ unit.force /\ unit.before # None)
        => /\ unit.dir # None
           /\ unit.dir[1] \cap unit.before[1] = {}

\* The lines of a text: the pieces between its newlines.
RECURSIVE SplitLines(_, _)
SplitLines(text, line) ==
    IF text = <<>> THEN <<line>>
    ELSE IF text[1] = "\n" THEN <<line>> \o SplitLines(Tail(text), <<>>)
    ELSE SplitLines(Tail(text), Append(line, text[1]))

\* C32: when the search fails with a PackageResolutionError that carries a
\* non-empty partial SBOM and non-empty command output, then after main the
\* directory named by --log-dir holds most_promising_sbom.txt, listing the
\* packages of the partial SBOM one per line in order, and final_output.txt,
\* holding exactly the output.
C32_ArtifactsInNamedLogDir ==
    (unit.kind = "cli" /\ unit.pc = "exited" /\ unit.log_dir
         /\ unit.err.type = "PackageResolutionError"
         /\ unit.err.partial # <<>> /\ unit.err.out \notin {NoOut, <<>>})
        => /\ unit.dir # None
           /\ \E f \in unit.dir[1] :
                  /\ f.name = "most_promising_sbom.txt"
                  /\ SplitLines(f.data, <<>>) = [i \in 1..Len(unit.err.partial) |-> <<ToString(unit.err.partial[i])>>]
           /\ \E f \in unit.dir[1] :
                  f.name = "final_output.txt" /\ f.data = unit.err.out

\* The preinstall sets of the proper ancestors of step s.
RECURSIVE AncestorsPreinstall(_)
AncestorsPreinstall(s) ==
    IF steps[s].parent = 0 THEN {}
    ELSE steps[steps[s].parent].pre \cup AncestorsPreinstall(steps[s].parent)

\* C33: for every step ever created, tried_packages is the union of the
\* preinstall sets of its proper ancestors and is disjoint from the step's own
\* preinstall; so no package is installed twice along a chain and the step's
\* ordered SBOM holds no package twice.
C33_TriedIsAncestorsPreinstall ==
    \A s \in 1..Len(steps) :
        /\ steps[s].tried = AncestorsPreinstall(s)
        /\ steps[s].tried \cap steps[s].pre = {}
        /\ LET sbom == StepSbom(steps, s)
           IN \A i, j \in 1..Len(sbom) : sbom[i] = sbom[j] => i = j

C33_Witness ==
    \E s \in 1..Len(steps) :
        /\ steps[s].level >= 2 /\ steps[s].pre # {}
        /\ steps[s].tried # {} /\ steps[s].tried = AncestorsPreinstall(s)
        /\ Len(StepSbom(steps, s)) = NumPackages

\* C34: when a step ranks its candidates, every entry of its missing_files
\* is a path that does not exist in the step's snapshot, the seeds pushed at
\* the root included.
C34_MissingFilesAreMissing ==
    \A k \in 1..Len(stack) :
        (stack[k].kind = "FFS" /\ stack[k].pc = "decide")
            => LET s == stack[k].step
               IN \A i \in 1..Len(steps[s].missing) :
                      ~FileExists(steps[s].missing[i], Installed(steps, s))

\* The packages a step with the packages I installed ranks as candidates: the
\* providers, not yet installed, of the paths its run finds missing.
CandidatesOn(I) ==
    {p \in Packages \ I :
        \E f \in Accessed : ~FileExists(f, I) /\ p \in env.cache[Resolve(f)]}

\* Whether the first command exits zero on I or on some package set reached
\* from I by successively installing candidates.
RECURSIVE CanSucceedFrom(_)
CanSucceedFrom(I) ==
    \/ ExitCode(1, I) = 0
    \/ \E p \in CandidatesOn(I) :
           InstallResult({p}, I) = "ok" /\ CanSucceedFrom(I \cup {p})

\* C35: in a single-command search an SBOM is in the infeasible set only if
\* no package set reachable from it by successively installing candidate
\* packages makes the command exit zero.
C35_InfeasibleHasNoFeasibleDescendant ==
    env.mode = "single" => \A S \in infeasible : ~CanSucceedFrom(S)

\* C36: when opening a child step fails during setup (its preinstall raises
\* PreinstallError), the parent's entry count after the failure equals its
\* count before the attempt, the child's entry count is 0 and it owns no
\* snapshot.
C36_FailedOpenLeavesParent ==
    [][\A i \in (Len(events) + 1)..Len(events') :
           events'[i].kind = "preinstall"
               => LET c == events'[i].step
                      p == steps'[c].parent
                  IN /\ steps'[p].entries = steps[p].entries
                     /\ steps'[c].entries = 0
                     /\ ~steps'[c].image]_vars

\* C37: at every point of a search, single-command or multi-step, no SBOM is
\* in both the generator's feasible set and its infeasible set.
C37_FeasibleAndInfeasibleDisjoint == feasible \cap infeasible = {}

\* C38: when the refresh thread and the driver thread both observe the
\* Execution's container as exited, under every interleaving the Execution
\* is closed once: close leaves the owning Container once, and exactly once
\* when both threads have come to rest, the entry count never drops below
\* zero, and the snapshot is there as long as the driver holds an entry.
C38_ClosedOnceUnderEveryInterleaving ==
    (unit.kind = "race" /\ \A t \in Threads : unit.th[t].seen)
        => /\ unit.released <= 1
           /\ unit.entries >= 0
           /\ (unit.holders > 0 => unit.image)
           /\ ((\A t \in Threads : Len(unit.th[t].stk) = 1) => unit.released = 1)

\* C39: at every moment of a search the open steps form one root-to-node
\* chain: no two steps that are open at the same time have the same level, so
\* no two live snapshots carry the same image name and tag.
C39_OpenStepsFormOneChain ==
    \A a, b \in 1..Len(steps) :
        (a # b /\ steps[a].image /\ steps[b].image) => steps[a].level # steps[b].level

\* The distinct packages the cache maps any file to.
PackagesInCache == UNION {env.cache[f] : f \in Files}

\* C40: in a single-command search every child installs exactly one package
\* that is not on its ancestor chain, one level below its parent, so no step's
\* level exceeds the number of distinct packages in the cache and no two steps
\* stand for the same sequence of installs: the search tree is finite and the
\* search ends, exhausted or with an error.
C40_LevelBoundedByPackages ==
    env.mode = "single"
        => /\ \A s \in 1..Len(steps) :
                  /\ steps[s].level <= Cardinality(PackagesInCache)
                  /\ steps[s].parent # 0
                         => /\ Cardinality(steps[s].pre) = 1
                            /\ steps[s].pre \subseteq PackagesInCache
                            /\ steps[s].pre \cap Installed(steps, steps[s].parent) = {}
                            /\ steps[s].level = steps[steps[s].parent].level + 1
           /\ \A a, b \in 1..Len(steps) :
                  a # b => StepSbom(steps, a) # StepSbom(steps, b)

C40_Witness ==
    /\ env.mode = "single"
    /\ outcome \notin {"idle", "running"}
    /\ Cardinality(PackagesInCache) = NumPackages
    /\ \E s \in 1..Len(steps) : steps[s].level = NumPackages
    /\ Len(steps) > NumPackages + 1

\* Every single-command search comes to an end.
SearchEnds == env.mode = "single" ~> outcome \notin {"idle", "running"}
FairSpec == Spec /\ WF_vars(Next)

====
